---- MODULE Spec2Model ----
(***************************************************************************)
(* A model of the command-line flag parser of abiiranathan/flag: the       *)
(* context-based implementation (flag_context_init, flag_add,              *)
(* flag_add_subcommand, subcommand_add_flag, parse_flags) driven by the    *)
(* program of main.c.                                                      *)
(*                                                                         *)
(* C strings are TLA+ strings; the terminating NUL of a C string is the    *)
(* empty string that SubSeq yields past the end.  Integers of the C data   *)
(* model (LP64: int 32 bits, long = size_t = intmax_t = uintptr_t 64 bits) *)
(* are words: four 16-bit limbs, least significant first, read as two's    *)
(* complement for the signed types.  A word keeps every bit, so range      *)
(* checks and the truncation of a cast are computed, not assumed.          *)
(***************************************************************************)
EXTENDS Integers, Sequences, FiniteSets, TLC

NULL == "NULL"

\* A pointer to a struct: NULL_PTR, or AddressOf the struct it points to.
NULL_PTR == <<>>
AddressOf(x) == <<x>>
Deref(p) == p[1]

(***************************************************************************)
(* C strings                                                               *)
(***************************************************************************)

\* s[k] of a C string, k counted from 0; the NUL terminator reads as "".
CharAt(s, k) == IF k < Len(s) THEN SubSeq(s, k + 1, k + 1) ELSE ""

\* &s[k]: the string that starts at offset k.
StrFrom(s, k) == SubSeq(s, k + 1, Len(s))

Digits == {"0", "1", "2", "3", "4", "5", "6", "7", "8", "9"}

\* isdigit of <ctype.h> in the C locale.
isdigit(c) == c \in Digits

\* The value of a decimal digit character.
DigitVal(c) ==
  CASE c = "0" -> 0 [] c = "1" -> 1 [] c = "2" -> 2 [] c = "3" -> 3
    [] c = "4" -> 4 [] c = "5" -> 5 [] c = "6" -> 6 [] c = "7" -> 7
    [] c = "8" -> 8 [] c = "9" -> 9

\* isspace of <ctype.h> in the C locale (the characters the tokens can hold).
isspace(c) == c \in {" ", "\t", "\n", "\r"}

\* tolower of <ctype.h> on the letters of "true" and "false".
tolower(c) ==
  CASE c = "T" -> "t" [] c = "R" -> "r" [] c = "U" -> "u" [] c = "E" -> "e"
    [] c = "F" -> "f" [] c = "A" -> "a" [] c = "L" -> "l" [] c = "S" -> "s"
    [] OTHER -> c

RECURSIVE StrLower(_)
StrLower(s) == IF s = "" THEN "" ELSE tolower(Head(s)) \o StrLower(Tail(s))

\* strcmp(a, b) == 0
strcmp_eq(a, b) == a = b

\* strcasecmp(a, b) == 0
\* A comparison that tells the cases of letters apart, where the code
\* calls strcasecmp.
strcasecmp_as_strcmp(a, b) == a = b

strcasecmp_eq(a, b) == StrLower(a) = StrLower(b)

(***************************************************************************)
(* 64-bit words                                                            *)
(***************************************************************************)

Limb == 2^16

W(l0, l1, l2, l3) == <<l0, l1, l2, l3>>

\* A small non-negative number as a word.
WordOf(n) == W(n % Limb, n \div Limb, 0, 0)

WZero == WordOf(0)

\* Unsigned comparison a < b.
ULess(a, b) ==
  \/ a[4] < b[4]
  \/ a[4] = b[4] /\ a[3] < b[3]
  \/ a[4] = b[4] /\ a[3] = b[3] /\ a[2] < b[2]
  \/ a[4] = b[4] /\ a[3] = b[3] /\ a[2] = b[2] /\ a[1] < b[1]

\* The sign bit of a word read as intmax_t.
IsNeg(a) == a[4] >= (Limb \div 2)

\* Signed (two's complement) comparison a < b.
SLess(a, b) ==
  IF IsNeg(a) # IsNeg(b) THEN IsNeg(a) ELSE ULess(a, b)

\* a * 10 + d modulo 2^64, with the carry out of bit 63: limb k and up,
\* the lower limbs already in out.
RECURSIVE MulAdd10From(_, _, _, _)
MulAdd10From(a, k, carry, out) ==
  IF k > 4 THEN [w |-> out, carry |-> carry > 0]
  ELSE MulAdd10From(a, k + 1, (a[k] * 10 + carry) \div Limb,
                    Append(out, (a[k] * 10 + carry) % Limb))

MulAdd10(a, d) == MulAdd10From(a, 1, d, <<>>)

\* 2^64 - a modulo 2^64, negation in unsigned arithmetic: the complement
\* plus one, limb by limb.
RECURSIVE WNegFrom(_, _, _, _)
WNegFrom(a, k, carry, out) ==
  IF k > 4 THEN out
  ELSE WNegFrom(a, k + 1, ((Limb - 1 - a[k]) + carry) \div Limb,
                Append(out, ((Limb - 1 - a[k]) + carry) % Limb))

WNeg(a) == WNegFrom(a, 1, 1, <<>>)

\* Limits of <stdint.h> / <limits.h> under LP64, as words.
W_INT8_MIN   == WNeg(WordOf(128))
W_INT8_MAX   == WordOf(127)
W_INT16_MIN  == WNeg(WordOf(32768))
W_INT16_MAX  == WordOf(32767)
W_INT32_MIN  == WNeg(W(0, Limb \div 2, 0, 0))
W_INT32_MAX  == W(Limb - 1, (Limb \div 2) - 1, 0, 0)
W_INT64_MIN  == W(0, 0, 0, Limb \div 2)
W_INT64_MAX  == W(Limb - 1, Limb - 1, Limb - 1, (Limb \div 2) - 1)
W_UINT8_MAX  == WordOf(255)
W_UINT16_MAX == WordOf(65535)
W_UINT32_MAX == W(Limb - 1, Limb - 1, 0, 0)
W_UINT64_MAX == W(Limb - 1, Limb - 1, Limb - 1, Limb - 1)

\* The conversion of a cast to an integer type of the given width: the low
\* bits are kept.
Truncate(a, bits) ==
  CASE bits = 8  -> W(a[1] % 256, 0, 0, 0)
    [] bits = 16 -> W(a[1], 0, 0, 0)
    [] bits = 32 -> W(a[1], a[2], 0, 0)
    [] bits = 64 -> a

\* The value of a signed type of the given width that holds the low bits of
\* a: the bits are kept and the sign bit is extended.
SignExtend(a, bits) ==
  CASE bits = 8  -> IF (a[1] % 256) >= 128
                    THEN W(Limb - 256 + (a[1] % 256), Limb - 1, Limb - 1, Limb - 1)
                    ELSE W(a[1] % 256, 0, 0, 0)
    [] bits = 16 -> IF a[1] >= (Limb \div 2)
                    THEN W(a[1], Limb - 1, Limb - 1, Limb - 1)
                    ELSE W(a[1], 0, 0, 0)
    [] bits = 32 -> IF a[2] >= (Limb \div 2)
                    THEN W(a[1], a[2], Limb - 1, Limb - 1)
                    ELSE W(a[1], a[2], 0, 0)
    [] bits = 64 -> a

(***************************************************************************)
(* strtol, strtoul, strtoimax, strtoumax of the C library, base 10         *)
(***************************************************************************)

RECURSIVE SkipSpace(_)
SkipSpace(s) == IF s # "" /\ isspace(Head(s)) THEN SkipSpace(Tail(s)) ELSE s

\* The leading decimal digits of s accumulated into the magnitude n.mag;
\* n.ovf is set once the magnitude no longer fits 64 bits.
AddDigit(n, r) == [n EXCEPT !.mag = r.w, !.ovf = @ \/ r.carry]

RECURSIVE AccDigits(_, _)
AccDigits(s, n) ==
  IF s = "" \/ ~isdigit(Head(s)) THEN n
  ELSE AccDigits(Tail(s), AddDigit(n, MulAdd10(n.mag, DigitVal(Head(s)))))

\* The optional sign, then the longest run of digits (none: magnitude 0).
ScanSigned(s) ==
  IF s # "" /\ Head(s) \in {"-", "+"}
  THEN AccDigits(Tail(s), [neg |-> Head(s) = "-", mag |-> WZero, ovf |-> FALSE])
  ELSE AccDigits(s, [neg |-> FALSE, mag |-> WZero, ovf |-> FALSE])

\* The subject sequence of a strto* call: optional white space first.
ScanNumber(str) == ScanSigned(SkipSpace(str))

\* A signed 64-bit conversion: the value, or the nearest limit with ERANGE.
SignedResult(n) ==
  IF n.neg
  THEN IF n.ovf \/ ULess(W_INT64_MIN, n.mag)
       THEN [value |-> W_INT64_MIN, erange |-> TRUE]
       ELSE [value |-> WNeg(n.mag), erange |-> FALSE]
  ELSE IF n.ovf \/ ULess(W_INT64_MAX, n.mag)
       THEN [value |-> W_INT64_MAX, erange |-> TRUE]
       ELSE [value |-> n.mag, erange |-> FALSE]

StrToSigned(str) == SignedResult(ScanNumber(str))

\* An unsigned 64-bit conversion: a minus sign negates in unsigned arithmetic.
UnsignedResult(n) ==
  IF n.ovf
  THEN [value |-> W_UINT64_MAX, erange |-> TRUE]
  ELSE [value |-> IF n.neg THEN WNeg(n.mag) ELSE n.mag, erange |-> FALSE]

StrToUnsigned(str) == UnsignedResult(ScanNumber(str))

strtol(str)    == StrToSigned(str)
strtoimax(str) == StrToSigned(str)
strtoul(str)   == StrToUnsigned(str)
strtoumax(str) == StrToUnsigned(str)

(***************************************************************************)
(* The registry: flag, subcommand, flag_ctx and the registration calls     *)
(***************************************************************************)

MAX_NAME == 64
MAX_GLOBAL_FLAGS == 24
MAX_SUBCOMMANDS == 10

\* The supported integer flag types with the width of the bound cell and
\* whether the cell's type is signed.  FLAG_FLOAT and FLAG_DOUBLE are outside
\* this model: no registry of the model declares a flag of those types.
SignedTypes   == {"FLAG_INT", "FLAG_INT8", "FLAG_INT16", "FLAG_INT32", "FLAG_INT64"}
UnsignedTypes == {"FLAG_SIZE_T", "FLAG_UINT", "FLAG_UINT8", "FLAG_UINT16",
                  "FLAG_UINT32", "FLAG_UINT64", "FLAG_UINTPTR"}
IntegerTypes  == SignedTypes \cup UnsignedTypes
flag_type     == {"FLAG_BOOL", "FLAG_STRING"} \cup IntegerTypes

TypeBits(type) ==
  CASE type \in {"FLAG_INT8", "FLAG_UINT8"}                -> 8
    [] type \in {"FLAG_INT16", "FLAG_UINT16"}              -> 16
    [] type \in {"FLAG_INT", "FLAG_INT32", "FLAG_UINT", "FLAG_UINT32"} -> 32
    [] type \in {"FLAG_INT64", "FLAG_UINT64", "FLAG_SIZE_T", "FLAG_UINTPTR"} -> 64

\* strncpy(dst, name, MAX_NAME - 1) followed by the NUL at dst[MAX_NAME - 1].
CopyName(name) == SubSeq(name, 1, IF Len(name) < MAX_NAME - 1 THEN Len(name) ELSE MAX_NAME - 1)

\* struct flag.  value is the name of the bound cell, or NULL.  flag_validator
\* is NULL_PTR or points to a record [validator, error_message].
Flag(name, value, type, required, validator) ==
  [name |-> CopyName(name), value |-> value, type |-> type,
   required |-> required, flag_validator |-> validator]

\* A capacity check that is off by one.
flag_add_has_capacity_off_by_one(ctx) == MAX_GLOBAL_FLAGS >= Len(ctx.flags)

\* The capacity check of flag_add: f_assert(MAX_GLOBAL_FLAGS > ctx->num_flags).
flag_add_has_capacity(ctx) == MAX_GLOBAL_FLAGS > Len(ctx.flags)

flag_add(ctx, name, value, type, required) ==
  [ctx EXCEPT !.flags = Append(@, Flag(name, value, type, required, NULL_PTR))]

flag_add_with_validator(ctx, name, value, type, required, validator) ==
  LET c == flag_add(ctx, name, value, type, required)
  IN  [c EXCEPT !.flags[Len(c.flags)].flag_validator = validator]

\* malloc'd flag_ctx with both counts 0, then the built-in help flag.
flag_context_init ==
  flag_add([flags |-> <<>>, subcommands |-> <<>>], "help", NULL, "FLAG_BOOL", FALSE)

\* The checks of flag_add_subcommand: room in the table and a handler.
flag_add_subcommand_ok(ctx, handler) ==
  MAX_SUBCOMMANDS > Len(ctx.subcommands) /\ handler # NULL

flag_add_subcommand(ctx, name, handler, flag_capacity) ==
  [ctx EXCEPT !.subcommands =
     Append(@, [name |-> CopyName(name), callback |-> handler,
                flags |-> <<>>, flag_capacity |-> flag_capacity])]

\* The capacity check of subcommand_add_flag.
subcommand_add_flag_has_capacity(subcmd) == Len(subcmd.flags) < subcmd.flag_capacity

\* subcommand_add_flag on the subcommand most recently added to ctx.
subcommand_add_flag(ctx, name, value, type, required, validator) ==
  [ctx EXCEPT !.subcommands[Len(ctx.subcommands)].flags =
     Append(@, Flag(name, value, type, required, validator))]

\* find_subcommand: the index of the first subcommand with that name, 0 for
\* the NULL result.
RECURSIVE find_subcommand_from(_, _, _)
find_subcommand_from(subcmds, k, name) ==
  IF k > Len(subcmds) THEN 0
  ELSE IF strcmp_eq(subcmds[k].name, name) THEN k
  ELSE find_subcommand_from(subcmds, k + 1, name)

\* A search that starts at the second subcommand.
find_subcommand_after_first(subcmds, name) == find_subcommand_from(subcmds, 2, name)

find_subcommand(subcmds, name) == find_subcommand_from(subcmds, 1, name)

(***************************************************************************)
(* Validators                                                              *)
(***************************************************************************)

\* validate_int of main.c: *int_value >= 0 && *int_value <= 10.
validate_int(v) == ~SLess(v, WZero) /\ ~SLess(WordOf(10), v)

\* A call that takes every value for valid.
CallValidatorAlwaysTrue(fn, v) == TRUE

\* The call of a validator function on the value the cell holds.
CallValidator(fn, v) ==
  CASE fn = "validate_int" -> validate_int(v)

int_validator ==
  AddressOf([validator |-> "validate_int", error_message |-> "Must be between 0 and 10"])

\* A validator registered without an error message.
quiet_validator == AddressOf([validator |-> "validate_int", error_message |-> NULL])

(***************************************************************************)
(* Value conversion                                                        *)
(***************************************************************************)

\* is_valid_integer: an optional sign followed by one or more digits.
RECURSIVE AllDigits(_)
AllDigits(s) == s = "" \/ (isdigit(Head(s)) /\ AllDigits(Tail(s)))

is_valid_integer(str) ==
  IF str = NULL \/ str = "" THEN FALSE
  ELSE IF Head(str) \in {"-", "+"}
  THEN Tail(str) # "" /\ AllDigits(Tail(str))
  ELSE AllDigits(str)

\* A cast that keeps the low bits and never extends the sign.
CastKeepsLowBits(type, v) == Truncate(v, TypeBits(type))

\* The cast that stores a converted number in a cell of the flag's type.
Cast(type, v) ==
  IF type \in SignedTypes
  THEN SignExtend(Truncate(v, TypeBits(type)), TypeBits(type))
  ELSE Truncate(v, TypeBits(type))

\* The integer cases of the switch on the flag type: the strto* call, the
\* test that makes the conversion fatal, and the value the cast stores.
\* uintptr_text is the one text that differs between the two switches.
\* l, ul, s, u are the results of strtol, strtoul, strtoimax and strtoumax.
IntegerCase(type, l, ul, s, u, uintptr_text) ==
      CASE type = "FLAG_INT" ->
             [fail |-> l.erange,
              text |-> "Error: Integer overflow for flag ",
              value |-> Cast(type, l.value)]
        [] type = "FLAG_SIZE_T" ->
             [fail |-> ul.erange,
              text |-> "Error: Size_t overflow for flag ",
              value |-> Cast(type, ul.value)]
        [] type = "FLAG_INT8" ->
             [fail |-> s.erange \/ SLess(s.value, W_INT8_MIN) \/ SLess(W_INT8_MAX, s.value),
              text |-> "Error: Int8 overflow or underflow for flag ",
              value |-> Cast(type, s.value)]
        [] type = "FLAG_INT16" ->
             [fail |-> s.erange \/ SLess(s.value, W_INT16_MIN) \/ SLess(W_INT16_MAX, s.value),
              text |-> "Error: Int16 overflow or underflow for flag ",
              value |-> Cast(type, s.value)]
        [] type = "FLAG_INT32" ->
             [fail |-> s.erange \/ SLess(s.value, W_INT32_MIN) \/ SLess(W_INT32_MAX, s.value),
              text |-> "Error: Int32 overflow or underflow for flag ",
              value |-> Cast(type, s.value)]
        [] type = "FLAG_INT64" ->
             [fail |-> s.erange \/ SLess(s.value, W_INT64_MIN) \/ SLess(W_INT64_MAX, s.value),
              text |-> "Error: Int64 overflow or underflow for flag ",
              value |-> Cast(type, s.value)]
        [] type = "FLAG_UINT8" ->
             [fail |-> u.erange \/ ULess(W_UINT8_MAX, u.value),
              text |-> "Error: Uint8 overflow for flag ",
              value |-> Cast(type, u.value)]
        [] type = "FLAG_UINT16" ->
             [fail |-> u.erange \/ ULess(W_UINT16_MAX, u.value),
              text |-> "Error: Uint16 overflow for flag ",
              value |-> Cast(type, u.value)]
        [] type = "FLAG_UINT32" ->
             [fail |-> u.erange \/ ULess(W_UINT32_MAX, u.value),
              text |-> "Error: Uint32 overflow for flag ",
              value |-> Cast(type, u.value)]
        [] type = "FLAG_UINT" ->
             [fail |-> u.erange \/ ULess(W_UINT32_MAX, u.value),
              text |-> "Error: Uint overflow for flag ",
              value |-> Cast(type, u.value)]
        [] type = "FLAG_UINT64" ->
             [fail |-> u.erange \/ ULess(W_UINT64_MAX, u.value),
              text |-> "Error: Uint64 overflow for flag ",
              value |-> Cast(type, u.value)]
        [] type = "FLAG_UINTPTR" ->
             [fail |-> u.erange \/ ULess(W_UINT64_MAX, u.value),
              text |-> uintptr_text,
              value |-> Cast(type, u.value)]

ConvertInteger(type, arg, uintptr_text) ==
  IntegerCase(type, strtol(arg), strtoul(arg), strtoimax(arg), strtoumax(arg),
              uintptr_text)

(***************************************************************************)
(* The running parse: a record m of everything parse_flags reads and       *)
(* writes.                                                                 *)
(*   pc, i, subcmd, subcmdIndex, proccessed_flags: the locals of           *)
(*     parse_flags (subcmd is an index into ctx.subcommands, 0 for NULL)   *)
(*   cells: the caller's variables the flags are bound to                  *)
(*   status: "running", "returned", "EXIT_SUCCESS", "EXIT_FAILURE", or     *)
(*     "SIGSEGV" for the crash of an undefined access                      *)
(*   result: the returned subcommand (index, 0 for NULL)                   *)
(*   stderr, stdout: what has been printed                                 *)
(*   writes, vcalls: every store to a cell and every validator call so     *)
(*     far, in order (history)                                             *)
(***************************************************************************)

\* An undefined access (a string function on the NULL argv[argc], a read
\* past it, a store through a NULL value pointer) either crashes or goes on
\* with whatever the access yields.
UB_CRASH == "SIGSEGV"
UBReads == {"", "1"}
UBOutcomes == {UB_CRASH} \cup UBReads

\* argv[i] as the code reads it: a token, the NULL that ends argv, or an
\* undefined read past it.
UB_READ == "<past argv[argc]>"
ArgvAt(argv, argc, i) ==
  IF i < argc THEN argv[i] ELSE IF i = argc THEN NULL ELSE UB_READ

\* fprintf(stderr, ...) of a diagnostic that names a flag.
Diag(text, name, detail) == [text |-> text, flag |-> name, detail |-> detail]

\* exit(code) after a diagnostic.
Fatal(m, text, name, detail) ==
  [m EXCEPT !.pc = "done", !.status = "EXIT_FAILURE",
            !.stderr = Append(@, Diag(text, name, detail))]

\* fatalf: the diagnostic, then exit(EXIT_FAILURE).
fatalf(m, text, name) == Fatal(m, text, name, "")

Crash(m) == [m EXCEPT !.pc = "done", !.status = UB_CRASH]

\* A store that keeps the first value given to a cell.
StoreFirstOnly(m, f, v, at, from, ub) ==
  IF f.value = NULL
  THEN IF ub = UB_CRASH THEN Crash(m) ELSE m
  ELSE IF \E n \in 1..Len(m.writes) : m.writes[n].cell = f.value THEN m
  ELSE [m EXCEPT !.cells[f.value] = v,
                 !.writes = Append(@, [cell |-> f.value, value |-> v, flag |-> f.name,
                                       at |-> at, from |-> from, phase |-> m.pc])]

\* *((T*)flag.value) = v, for the flag matched by the token at argv[at] with
\* its value read from argv[from].
Store(m, f, v, at, from, ub) ==
  IF f.value = NULL
  THEN IF ub = UB_CRASH THEN Crash(m) ELSE m
  ELSE [m EXCEPT !.cells[f.value] = v,
                 !.writes = Append(@, [cell |-> f.value, value |-> v, flag |-> f.name,
                                       at |-> at, from |-> from, phase |-> m.pc])]

\* print_help: the content it prints, the registered flags and subcommands.
HelpLine(f) == [name |-> f.name, required |-> f.required, type |-> f.type]

print_help(ctx, argv) ==
  [prog |-> argv[0],
   flags |-> [k \in 1..Len(ctx.flags) |-> HelpLine(ctx.flags[k])],
   subcommands |->
     [k \in 1..Len(ctx.subcommands) |->
        [name |-> ctx.subcommands[k].name,
         flags |-> [q \in 1..Len(ctx.subcommands[k].flags) |->
                      HelpLine(ctx.subcommands[k].flags[q])]]]]

(***************************************************************************)
(* parse_subcommand_flag and parse_flag_helper                             *)
(***************************************************************************)

\* The end of an integer case: fatalf on a failed conversion r, else the
\* store of the cast value.
StoreInteger(m, f, r, at, from, ub) ==
  IF r.fail THEN fatalf(m, r.text, f.name) ELSE Store(m, f, r.value, at, from, ub)

\* A boolean case that is fatal for a word other than true and false, as
\* parse_flag_helper is.
SubcommandBoolCaseStrict(m, f, a, at, from, ub) ==
  IF strcasecmp_eq(a, "true") THEN Store(m, f, TRUE, at, from, ub)
  ELSE IF strcasecmp_eq(a, "false") THEN Store(m, f, FALSE, at, from, ub)
  ELSE fatalf(m, "Error: Invalid boolean value for flag ", f.name)

\* case FLAG_BOOL of parse_subcommand_flag: any word other than true and
\* false is taken for the next flag ("assume it is a flag") and stores true.
SubcommandBoolCase(m, f, a, at, from, ub) ==
  IF strcasecmp_eq(a, "true") THEN Store(m, f, TRUE, at, from, ub)
  ELSE IF strcasecmp_eq(a, "false") THEN Store(m, f, FALSE, at, from, ub)
  ELSE Store(m, f, TRUE, at, from, ub)

\* parse_subcommand_flag(flag, arg): the switch on the flag type.  arg is
\* argv[from]; every case hands it to a string function, which is undefined
\* for the NULL that ends argv.
parse_subcommand_flag(m, f, arg, at, from, ub) ==
  IF arg = NULL /\ ub = UB_CRASH THEN Crash(m)
  ELSE
    LET a == IF arg = NULL THEN ub ELSE arg
    IN  CASE f.type = "FLAG_BOOL" -> SubcommandBoolCase(m, f, a, at, from, ub)
          [] f.type \in IntegerTypes ->
               StoreInteger(m, f, ConvertInteger(f.type, a, "Error: Uint64 overflow for flag "),
                            at, from, ub)
          [] f.type = "FLAG_STRING" -> Store(m, f, a, at, from, ub)

\* validate_integer(flags, argv, i, j) does not return for an invalid token.
validate_integer(str) == is_valid_integer(str)

\* A boolean case that takes any other token for the next argument and
\* stores true, as parse_subcommand_flag does.
GlobalBoolCaseLenient(m, f, argv, argc, at, i, ub) ==
  IF i < argc /\ strcasecmp_eq(ArgvAt(argv, argc, i), "false")
  THEN Store(m, f, FALSE, at, i, ub)
  ELSE Store(m, f, TRUE, at, i, ub)

\* case FLAG_BOOL of parse_flag_helper: "If no value is specified, consider
\* it as true"; a value other than true/false is fatal.
GlobalBoolCase(m, f, argv, argc, at, i, ub) ==
  IF i >= argc \/ strcasecmp_eq(ArgvAt(argv, argc, i), "true")
  THEN Store(m, f, TRUE, at, i, ub)
  ELSE IF strcasecmp_eq(ArgvAt(argv, argc, i), "false")
  THEN Store(m, f, FALSE, at, i, ub)
  ELSE fatalf(m, "Error: Invalid boolean value for flag ", f.name)

\* The integer cases of parse_flag_helper on the string a read from argv[i]:
\* validate_integer, then the conversion.
GlobalIntegerCase(m, f, a, at, i, ub) ==
  IF ~validate_integer(a)
  THEN Fatal(m, "Error: Invalid integer value for flag ", f.name, "")
  ELSE StoreInteger(m, f, ConvertInteger(f.type, a, "Error: uintptr_t overflow for flag "),
                    at, i, ub)

\* The switch of parse_flag_helper for the matched flag f, with i already
\* advanced to the value token.  validate_integer tests the NULL that ends
\* argv; a read past it is undefined, as is strdup of either.
GlobalSwitch(m, f, argv, argc, at, i, ub) ==
  CASE f.type = "FLAG_BOOL" -> GlobalBoolCase(m, f, argv, argc, at, i, ub)
    [] f.type \in IntegerTypes ->
         IF ArgvAt(argv, argc, i) = UB_READ
         THEN IF ub = UB_CRASH THEN Crash(m)
              ELSE GlobalIntegerCase(m, f, ub, at, i, ub)
         ELSE GlobalIntegerCase(m, f, ArgvAt(argv, argc, i), at, i, ub)
    [] f.type = "FLAG_STRING" ->
         IF ArgvAt(argv, argc, i) \in {NULL, UB_READ}
         THEN IF ub = UB_CRASH THEN Crash(m) ELSE Store(m, f, ub, at, i, ub)
         ELSE Store(m, f, ArgvAt(argv, argc, i), at, i, ub)

\* "If a validator is specified, call it": the validator reads the cell; a
\* false result prints the flag's name with the validator's message (or
\* "Invalid value") and exits with failure.
RunValidator(m, f, at, ub) ==
  IF m.status # "running" THEN m
  ELSE IF f.flag_validator = NULL_PTR THEN m
  ELSE IF Deref(f.flag_validator).validator = NULL THEN m
  ELSE IF f.value = NULL
  THEN IF ub = UB_CRASH THEN Crash(m) ELSE m
  ELSE
    LET v  == m.cells[f.value]
        m1 == [m EXCEPT !.vcalls = Append(@, [flag |-> f.name, cell |-> f.value,
                                              value |-> v, at |-> at,
                                              stores |-> Len(m.writes)])]
    IN  IF CallValidator(Deref(f.flag_validator).validator, v) THEN m1
        ELSE Fatal(m1, "Error: Invalid value for flag ", f.name,
                   IF Deref(f.flag_validator).error_message = NULL
                   THEN "Invalid value" ELSE Deref(f.flag_validator).error_message)

\* Handle both single-dash and double-dash flag notation:
\* (argv[i][1] == '-') ? &argv[i][2] : &argv[i][1]
global_flag_name(tok) ==
  IF CharAt(tok, 1) = "-" THEN StrFrom(tok, 2) ELSE StrFrom(tok, 1)

\* What parse_flag_helper does on a match before the switch: i++.
AdvanceToValue(i) == i + 1

\* The for loop of parse_flag_helper from descriptor j on.  i is the local
\* copy of *iptr; it is never written back to the caller.
RECURSIVE parse_flag_helper_from(_, _, _, _, _, _, _, _)
parse_flag_helper_from(flags, j, i, argc, argv, at, m, ub) ==
  IF j > Len(flags) \/ m.status # "running" THEN m
  ELSE IF strcmp_eq(global_flag_name(argv[at]), flags[j].name)
  THEN LET i1 == AdvanceToValue(i)
           m1 == GlobalSwitch(m, flags[j], argv, argc, at, i1, ub)
           m2 == RunValidator(m1, flags[j], at, ub)
       IN  parse_flag_helper_from(flags, j + 1, i1, argc, argv, at, m2, ub)
  ELSE parse_flag_helper_from(flags, j + 1, i, argc, argv, at, m, ub)

parse_flag_helper(flags, i, argc, argv, m, ub) ==
  parse_flag_helper_from(flags, 1, i, argc, argv, i, m, ub)

(***************************************************************************)
(* parse_flags                                                             *)
(***************************************************************************)

\* argc of an argv given as a function on 0..argc-1.
Argc(argv) == Cardinality(DOMAIN argv)

\* return subcmd (0 for NULL).
Return(m, k) == [m EXCEPT !.pc = "done", !.status = "returned", !.result = k]

\* A zeroed struct flag of proccessed_flags.
ZeroFlag ==
  [name |-> "", value |-> NULL, type |-> "FLAG_BOOL", required |-> FALSE,
   flag_validator |-> NULL_PTR]

\* The entry of parse_flags: argc < 2 returns NULL at once.
ParseEntry(ctx, argv, m) ==
  IF Argc(argv) < 2 THEN Return(m, 0)
  ELSE [m EXCEPT !.pc = "phase1", !.i = 1, !.subcmdIndex = -1, !.subcmd = 0]

\* A for loop that does not move on.
NextTokenStays(m) == m

\* The for loop's own i++ after an iteration that neither exits nor breaks.
NextToken(m) == IF m.status = "running" THEN [m EXCEPT !.i = @ + 1] ELSE m

\* A help request that is also stored like a boolean flag given without a
\* value.
HelpRequestStoring(ctx, argv, m) ==
  [m EXCEPT !.pc = "done", !.status = "EXIT_SUCCESS",
            !.stdout = Append(@, print_help(ctx, argv)),
            !.writes = Append(@, [cell |-> "help", value |-> TRUE, flag |-> "help",
                                  at |-> m.i, from |-> m.i + 1, phase |-> m.pc])]

\* The handling of a help request in the first pass.
HelpRequest(ctx, argv, m) ==
  [m EXCEPT !.pc = "done", !.status = "EXIT_SUCCESS",
            !.stdout = Append(@, print_help(ctx, argv))]

\* The subcommand was found at argv[m.i]: break, then the set-up of the
\* second pass (the zeroed proccessed_flags, ++subcmdIndex).
EnterSubcommand(ctx, m, k) ==
  [m EXCEPT !.pc = "phase2", !.subcmd = k, !.subcmdIndex = m.i + 1,
            !.proccessed_flags = [q \in 1..Len(ctx.subcommands[k].flags) |-> ZeroFlag]]

\* One iteration of the first pass, on argv[m.i].
Phase1Iteration(ctx, argv, m, ub) ==
  LET tok == argv[m.i]
  IN  IF CharAt(tok, 0) = "-"
      THEN IF strcmp_eq(global_flag_name(tok), "help")
           THEN HelpRequest(ctx, argv, m)
           ELSE NextToken(parse_flag_helper(ctx.flags, m.i, Argc(argv), argv, m, ub))
      ELSE IF Len(ctx.subcommands) = 0
           THEN NextToken(m)
           ELSE LET k == find_subcommand(ctx.subcommands, tok)
                IN  IF k # 0 THEN EnterSubcommand(ctx, m, k) ELSE NextToken(m)

\* A candidate flag name that keeps the dash.
subcommand_flag_name_keeps_dash(tok) == tok

\* The candidate flag name of the second pass:
\* argv[subcmdIndex][0] == '-' ? &argv[subcmdIndex][1] : &argv[subcmdIndex][0]
subcommand_flag_name(tok) ==
  IF CharAt(tok, 0) = "-" THEN StrFrom(tok, 1) ELSE tok

\* "find flag index matching next flag": the first match, 0 for none.
RECURSIVE find_flag_index(_, _, _)
find_flag_index(flags, j, arg) ==
  IF j > Len(flags) THEN 0
  ELSE IF strcmp_eq(flags[j].name, arg) THEN j
  ELSE find_flag_index(flags, j + 1, arg)

\* How far the second pass moves subcmdIndex in one iteration.
Phase2Advance(idx) == idx + 1

\* A second pass that hands a token matching no flag of the subcommand to
\* parse_flag_helper with the global flags.
Phase2IterationWithGlobals(ctx, argv, m, ub) ==
  LET sub  == ctx.subcommands[m.subcmd]
      at   == m.subcmdIndex
      j    == find_flag_index(sub.flags, 1, subcommand_flag_name(argv[at]))
      next == Phase2Advance(at)
      m1   == [m EXCEPT !.subcmdIndex = next]
  IN  IF j = 0 THEN parse_flag_helper(ctx.flags, at, Argc(argv), argv, m1, ub)
      ELSE parse_subcommand_flag(
             [m1 EXCEPT !.proccessed_flags[j] = sub.flags[j]],
             sub.flags[j], ArgvAt(argv, Argc(argv), next), at, next, ub)

\* One iteration of the second pass, on argv[m.subcmdIndex].
Phase2Iteration(ctx, argv, m, ub) ==
  LET sub  == ctx.subcommands[m.subcmd]
      at   == m.subcmdIndex
      j    == find_flag_index(sub.flags, 1, subcommand_flag_name(argv[at]))
      next == Phase2Advance(at)
      m1   == [m EXCEPT !.subcmdIndex = next]
  IN  IF j = 0 THEN m1
      ELSE parse_subcommand_flag(
             [m1 EXCEPT !.proccessed_flags[j] = sub.flags[j]],
             sub.flags[j], ArgvAt(argv, Argc(argv), next), at, next, ub)

\* A validation that finds no flag missing.
no_missing_required(flags, processed, k) == 0

\* "Post processing validation": the first required flag whose copy in
\* proccessed_flags still has a NULL value is fatal; otherwise return subcmd.
RECURSIVE first_missing_required(_, _, _)
first_missing_required(flags, processed, k) ==
  IF k > Len(flags) THEN 0
  ELSE IF flags[k].required /\ processed[k].value = NULL THEN k
  ELSE first_missing_required(flags, processed, k + 1)

PostProcessing(ctx, argv, m) ==
  LET sub == ctx.subcommands[m.subcmd]
      k   == first_missing_required(sub.flags, m.proccessed_flags, 1)
  IN  IF k # 0
      THEN [m EXCEPT !.pc = "done", !.status = "EXIT_FAILURE",
                     !.stderr = Append(@, Diag("[ERROR]: Flag is required", sub.flags[k].name, "")),
                     !.stdout = Append(@, print_help(ctx, argv))]
      ELSE Return(m, m.subcmd)

\* One step of parse_flags from m.
Step(ctx, argv, m, ub) ==
  CASE m.pc = "entry"  -> ParseEntry(ctx, argv, m)
    [] m.pc = "phase1" -> IF m.i < Argc(argv) THEN Phase1Iteration(ctx, argv, m, ub)
                          ELSE Return(m, 0)
    [] m.pc = "phase2" -> IF m.subcmdIndex < Argc(argv) THEN Phase2Iteration(ctx, argv, m, ub)
                          ELSE PostProcessing(ctx, argv, m)
    [] m.pc = "done"   -> m

\* parse_flags run to its end.
RECURSIVE Run(_, _, _, _)
Run(ctx, argv, m, ub) ==
  IF m.pc = "done" THEN m ELSE Run(ctx, argv, Step(ctx, argv, m, ub), ub)

\* The state of a call of parse_flags before its first statement.
NewParse(cells0) ==
  [pc |-> "entry", i |-> 0, subcmd |-> 0, subcmdIndex |-> -1,
   proccessed_flags |-> <<>>, cells |-> cells0, status |-> "running",
   result |-> 0, stderr |-> <<>>, stdout |-> <<>>, writes |-> <<>>, vcalls |-> <<>>]

(***************************************************************************)
(* printf of an integer cell, as main prints the parsed values             *)
(***************************************************************************)

DigitChar(d) ==
  CASE d = 0 -> "0" [] d = 1 -> "1" [] d = 2 -> "2" [] d = 3 -> "3" [] d = 4 -> "4"
    [] d = 5 -> "5" [] d = 6 -> "6" [] d = 7 -> "7" [] d = 8 -> "8" [] d = 9 -> "9"

\* a \div 10 and a % 10 of a word read as unsigned: long division from limb
\* k down, the higher limbs of the quotient already in out.
RECURSIVE Div10From(_, _, _, _)
Div10From(a, k, rem, out) ==
  IF k < 1 THEN [q |-> out, r |-> rem]
  ELSE Div10From(a, k - 1, (rem * Limb + a[k]) % 10,
                 <<(rem * Limb + a[k]) \div 10>> \o out)

\* The digits of a non-zero word, the lower digits already in acc.
RECURSIVE PrintDigits(_, _)
PrintDigitsStep(d, acc) == PrintDigits(d.q, DigitChar(d.r) \o acc)
PrintDigits(a, acc) == IF a = WZero THEN acc ELSE PrintDigitsStep(Div10From(a, 4, 0, <<>>), acc)

\* %u, %lu, %zu
PrintUnsigned(a) == IF a = WZero THEN "0" ELSE PrintDigits(a, "")

\* %d, %ld
PrintSigned(a) == IF IsNeg(a) THEN "-" \o PrintUnsigned(WNeg(a)) ELSE PrintUnsigned(a)

\* The text printf gives for a cell of an integer flag of the given type.
PrintCell(type, a) == IF type \in SignedTypes THEN PrintSigned(a) ELSE PrintUnsigned(a)

(***************************************************************************)
(* Registries: what main builds before it calls parse_flags                *)
(***************************************************************************)

\* The registry of main.c (its two float flags left out) with the initial
\* values of the variables it binds.
MainRegistry ==
  LET c0  == flag_context_init
      c1  == flag_add_with_validator(c0, "int", "integer_flag", "FLAG_INT", FALSE, int_validator)
      c2  == flag_add(c1, "size_t", "size_t_flag", "FLAG_SIZE_T", FALSE)
      c3  == flag_add(c2, "int8", "int8_flag", "FLAG_INT8", FALSE)
      c4  == flag_add(c3, "int16", "int16_flag", "FLAG_INT16", FALSE)
      c5  == flag_add(c4, "int32", "int32_flag", "FLAG_INT32", FALSE)
      c6  == flag_add(c5, "int64", "int64_flag", "FLAG_INT64", FALSE)
      c7  == flag_add(c6, "uint", "uint_flag", "FLAG_UINT", FALSE)
      c8  == flag_add(c7, "uint8", "uint8_flag", "FLAG_UINT8", FALSE)
      c9  == flag_add(c8, "uint16", "uint16_flag", "FLAG_UINT16", FALSE)
      c10 == flag_add(c9, "uint32", "uint32_flag", "FLAG_UINT32", FALSE)
      c11 == flag_add(c10, "uint64", "uint64_flag", "FLAG_UINT64", FALSE)
      c12 == flag_add(c11, "uintptr", "uintptr_flag", "FLAG_UINTPTR", FALSE)
      c13 == flag_add(c12, "string", "string_flag", "FLAG_STRING", FALSE)
      c14 == flag_add_subcommand(c13, "subcommand", "handle_subcommand", 2)
      c15 == subcommand_add_flag(c14, "verbose", "verbose", "FLAG_BOOL", FALSE, NULL_PTR)
      c16 == subcommand_add_flag(c15, "count", "count", "FLAG_INT", FALSE, NULL_PTR)
      c17 == flag_add_subcommand(c16, "greet", "handle_greet", 1)
      c18 == subcommand_add_flag(c17, "name", "name", "FLAG_STRING", FALSE, NULL_PTR)
  IN  [ctx   |-> c18,
       cells |-> [integer_flag |-> WZero, size_t_flag |-> WZero, int8_flag |-> WZero,
                  int16_flag |-> WZero, int32_flag |-> WZero, int64_flag |-> WZero,
                  uint_flag |-> WZero, uint8_flag |-> WZero, uint16_flag |-> WZero,
                  uint32_flag |-> WZero, uint64_flag |-> WZero, uintptr_flag |-> WZero,
                  string_flag |-> "", count |-> WZero, verbose |-> TRUE,
                  name |-> "Guest"]]

\* main.c's registry cut down to int and string, with a global boolean flag
\* added.
VerboseRegistry ==
  LET c0 == flag_context_init
      c1 == flag_add(c0, "verbose", "debug", "FLAG_BOOL", FALSE)
      c2 == flag_add_with_validator(c1, "int", "integer_flag", "FLAG_INT", FALSE, int_validator)
      c3 == flag_add(c2, "string", "string_flag", "FLAG_STRING", FALSE)
      c4 == flag_add_subcommand(c3, "greet", "handle_greet", 1)
      c5 == subcommand_add_flag(c4, "name", "name", "FLAG_STRING", FALSE, NULL_PTR)
  IN  [ctx   |-> c5,
       cells |-> [debug |-> FALSE, integer_flag |-> WZero, string_flag |-> "",
                  name |-> "Guest"]]

\* A registry without subcommands.
FlatRegistry ==
  LET c0 == flag_context_init
      c1 == flag_add_with_validator(c0, "int", "integer_flag", "FLAG_INT", FALSE, int_validator)
      c2 == flag_add(c1, "string", "string_flag", "FLAG_STRING", FALSE)
  IN  [ctx   |-> c2,
       cells |-> [integer_flag |-> WZero, string_flag |-> ""]]

\* A registry that uses what main.c leaves unused: a required global flag, a
\* validator without a message, and a subcommand with a required flag, a
\* flag with a validator and a boolean flag.
StrictRegistry ==
  LET c0 == flag_context_init
      c1 == flag_add_with_validator(c0, "int", "integer_flag", "FLAG_INT", TRUE, quiet_validator)
      c2 == flag_add_subcommand(c1, "greet", "handle_greet", 3)
      c3 == subcommand_add_flag(c2, "name", "name", "FLAG_STRING", TRUE, NULL_PTR)
      c4 == subcommand_add_flag(c3, "int", "count", "FLAG_INT", FALSE, int_validator)
      c5 == subcommand_add_flag(c4, "verbose", "verbose", "FLAG_BOOL", FALSE, NULL_PTR)
  IN  [ctx   |-> c5,
       cells |-> [integer_flag |-> WZero, name |-> "Guest", count |-> WZero,
                  verbose |-> FALSE]]

Registries == {MainRegistry, VerboseRegistry, FlatRegistry, StrictRegistry}

(***************************************************************************)
(* The command lines                                                       *)
(***************************************************************************)

\* The longest command line of Spec, argv[0] not counted.
MaxArgs == 3

Prog == "./flag"

Tokens ==
  {"-int", "--int", "5", "50", "-string", "greet", "-name", "--name", "name",
   "World", "-verbose", "False", "TRUE", "maybe", "-help", "9223372036854775808"}

\* argv of a command line: argv[0] is the program, argv[1..] the tokens.
MakeArgv(args) == [k \in 0..Len(args) |-> IF k = 0 THEN Prog ELSE args[k]]

Args(n) == UNION {[1..k -> Tokens] : k \in 0..n}

(***************************************************************************)
(* The state machine                                                       *)
(***************************************************************************)

VARIABLES ctx, argv, pc, i, subcmd, subcmdIndex, proccessed_flags, cells,
          status, result, stderr, stdout, writes, vcalls, calls

vars == <<ctx, argv, pc, i, subcmd, subcmdIndex, proccessed_flags, cells,
          status, result, stderr, stdout, writes, vcalls, calls>>

\* The running parse as one record.
M ==
  [pc |-> pc, i |-> i, subcmd |-> subcmd, subcmdIndex |-> subcmdIndex,
   proccessed_flags |-> proccessed_flags, cells |-> cells, status |-> status,
   result |-> result, stderr |-> stderr, stdout |-> stdout, writes |-> writes,
   vcalls |-> vcalls]

Becomes(m) ==
  /\ pc' = m.pc
  /\ i' = m.i
  /\ subcmd' = m.subcmd
  /\ subcmdIndex' = m.subcmdIndex
  /\ proccessed_flags' = m.proccessed_flags
  /\ cells' = m.cells
  /\ status' = m.status
  /\ result' = m.result
  /\ stderr' = m.stderr
  /\ stdout' = m.stdout
  /\ writes' = m.writes
  /\ vcalls' = m.vcalls
  /\ UNCHANGED <<ctx, argv, calls>>

\* main has built the registry r and calls parse_flags(ctx, argc, argv).
Start(r, a) ==
  LET m == NewParse(r.cells)
  IN  /\ ctx = r.ctx
      /\ argv = a
      /\ pc = m.pc
      /\ i = m.i
      /\ subcmd = m.subcmd
      /\ subcmdIndex = m.subcmdIndex
      /\ proccessed_flags = m.proccessed_flags
      /\ cells = m.cells
      /\ status = m.status
      /\ result = m.result
      /\ stderr = m.stderr
      /\ stdout = m.stdout
      /\ writes = m.writes
      /\ vcalls = m.vcalls
      /\ calls = <<>>

Init == \E r \in Registries, args \in Args(MaxArgs) : Start(r, MakeArgv(args))

\* if (argc < 2) return NULL; otherwise the first pass begins.
Entry ==
  /\ pc = "entry"
  /\ Becomes(ParseEntry(ctx, argv, M))

\* One iteration of the first pass.
Phase1Step ==
  /\ pc = "phase1"
  /\ i < Argc(argv)
  /\ \E ub \in UBOutcomes : Becomes(Phase1Iteration(ctx, argv, M, ub))

\* The first pass ran off the end of argv without a subcommand: return NULL.
Phase1End ==
  /\ pc = "phase1"
  /\ i >= Argc(argv)
  /\ Becomes(Return(M, 0))

\* One iteration of the second pass.
Phase2Step ==
  /\ pc = "phase2"
  /\ subcmdIndex < Argc(argv)
  /\ \E ub \in UBOutcomes : Becomes(Phase2Iteration(ctx, argv, M, ub))

\* A required-flag check that does not wait for the end of the second pass.
PostProcessEarly ==
  /\ pc = "phase2"
  /\ Becomes(PostProcessing(ctx, argv, M))

\* The second pass is over: required flags are checked, subcmd is returned.
PostProcess ==
  /\ pc = "phase2"
  /\ subcmdIndex >= Argc(argv)
  /\ Becomes(PostProcessing(ctx, argv, M))

\* subcommand_call: the callback of the subcommand called with its flags,
\* their number and the context.
subcommand_call(subcommand, c) ==
  [callback |-> subcommand.callback,
   args |-> [flags |-> subcommand.flags, num_flags |-> Len(subcommand.flags), ctx |-> c]]

\* main, after parse_flags has returned a subcommand:
\* if (cmd) subcommand_call(cmd, ctx);
MainCallsSubcommand ==
  /\ pc = "done"
  /\ status = "returned"
  /\ result # 0
  /\ pc' = "called"
  /\ calls' = Append(calls, subcommand_call(ctx.subcommands[result], ctx))
  /\ UNCHANGED <<ctx, argv, i, subcmd, subcmdIndex, proccessed_flags, cells,
                 status, result, stderr, stdout, writes, vcalls>>

Next ==
  Entry \/ Phase1Step \/ Phase1End \/ Phase2Step \/ PostProcess \/ MainCallsSubcommand

Spec == Init /\ [][Next]_vars

(***************************************************************************)
(* Command lines of the documented shape:                                  *)
(*   prog (-flag value)* [subcommand (-flag value)*]                       *)
(***************************************************************************)

\* The most -flag value pairs before the subcommand, and after it.
MaxGlobalPairs == 2
MaxSubPairs == 1

ShapeValues == {"5", "hi", "World", "true"}

ShapeGlobalNames == {"int", "string"}

FlagPairs(flags, names) ==
  {<<"-" \o flags[j].name, v>> : j \in {q \in 1..Len(flags) : flags[q].name \in names},
                                 v \in ShapeValues}

PairSeqs(pairs, n) == UNION {[1..k -> pairs] : k \in 0..n}

RECURSIVE Flatten(_)
Flatten(ps) == IF ps = <<>> THEN <<>> ELSE Head(ps) \o Flatten(Tail(ps))

ShapeArgs(r) ==
  LET globals == PairSeqs(FlagPairs(r.ctx.flags, ShapeGlobalNames), MaxGlobalPairs)
  IN  {Flatten(g) : g \in globals} \cup
      UNION {{Flatten(g) \o <<r.ctx.subcommands[k].name>> \o Flatten(q) :
                g \in globals,
                q \in PairSeqs(FlagPairs(r.ctx.subcommands[k].flags,
                                         {r.ctx.subcommands[k].flags[j].name :
                                            j \in 1..Len(r.ctx.subcommands[k].flags)}),
                               MaxSubPairs)} :
             k \in 1..Len(r.ctx.subcommands)}

InitShape == \E args \in ShapeArgs(MainRegistry) : Start(MainRegistry, MakeArgv(args))

SpecShape == InitShape /\ [][Next]_vars

(***************************************************************************)
(* Command lines that repeat a flag:                                       *)
(*   prog (-f value)* [subcommand (-g value)*]                             *)
(***************************************************************************)

\* The most occurrences of a flag before the subcommand, and after it.
MaxRepeats == 2

RepeatValues == {"5", "7", "true", "false"}

RepeatRegistries == {MainRegistry, StrictRegistry}

\* The sequences -name v1 ... -name vn of up to MaxRepeats occurrences of one
\* flag of flags with a name in names.
Repeats(flags, names) ==
  UNION {{Flatten([k \in 1..n |-> <<"-" \o flags[j].name, vs[k]>>]) :
            vs \in [1..n -> RepeatValues]} :
         j \in {q \in 1..Len(flags) : flags[q].name \in names}, n \in 0..MaxRepeats}

RepeatArgs(r) ==
  LET globals == Repeats(r.ctx.flags, ShapeGlobalNames)
  IN  globals \cup
      UNION {{g \o <<r.ctx.subcommands[k].name>> \o q :
                g \in globals,
                q \in Repeats(r.ctx.subcommands[k].flags,
                              {r.ctx.subcommands[k].flags[j].name :
                                 j \in 1..Len(r.ctx.subcommands[k].flags)})} :
             k \in 1..Len(r.ctx.subcommands)}

InitRepeat ==
  \E r \in RepeatRegistries : \E args \in RepeatArgs(r) : Start(r, MakeArgv(args))

SpecRepeat == InitRepeat /\ [][Next]_vars

(***************************************************************************)
(* Command lines for a context in which one global name is registered      *)
(* twice                                                                   *)
(***************************************************************************)

\* flag_add called twice with the name int, for two different variables.
DupRegistry ==
  LET c0 == flag_context_init
      c1 == flag_add(c0, "int", "first_int", "FLAG_INT", FALSE)
      c2 == flag_add(c1, "int", "second_int", "FLAG_INT", FALSE)
      c3 == flag_add(c2, "string", "string_flag", "FLAG_STRING", FALSE)
      c4 == flag_add_subcommand(c3, "greet", "handle_greet", 1)
      c5 == subcommand_add_flag(c4, "name", "name", "FLAG_STRING", FALSE, NULL_PTR)
  IN  [ctx   |-> c5,
       cells |-> [first_int |-> WZero, second_int |-> WZero, string_flag |-> "",
                  name |-> "Guest"]]

InitDup == \E args \in Args(MaxArgs) : Start(DupRegistry, MakeArgv(args))

SpecDup == InitDup /\ [][Next]_vars

(***************************************************************************)
(* Command lines that give one integer flag one value, for every integer   *)
(* type, before and after a subcommand                                     *)
(***************************************************************************)

\* One global flag n and one subcommand cmd with a flag n, both of the given
\* type, bound to cells that hold 7 before the parse.
NumRegistry(type) ==
  LET c0 == flag_context_init
      c1 == flag_add(c0, "n", "global_n", type, FALSE)
      c2 == flag_add_subcommand(c1, "cmd", "handle_cmd", 1)
      c3 == subcommand_add_flag(c2, "n", "sub_n", type, FALSE, NULL_PTR)
  IN  [ctx   |-> c3,
       cells |-> [global_n |-> WordOf(7), sub_n |-> WordOf(7)]]

NumTokens ==
  {"0", "5", "-1", "+5", "007", "-0", "127", "128", "-128", "-129", "255", "256",
   "32767", "32768", "-32768", "-32769", "65535", "65536",
   "2147483647", "2147483648", "-2147483648", "-2147483649",
   "4294967295", "4294967296",
   "9223372036854775807", "9223372036854775808",
   "-9223372036854775808", "-9223372036854775809",
   "18446744073709551615", "18446744073709551616",
   "abc", "12x", "", "1.5", " 5"}

NumArgs == UNION {{<<"-n", t>>, <<"--n", t>>, <<"cmd", "-n", t>>} : t \in NumTokens}

InitNum ==
  \E type \in IntegerTypes :
    \E args \in NumArgs : Start(NumRegistry(type), MakeArgv(args))

SpecNum == InitNum /\ [][Next]_vars

(***************************************************************************)
(* Registration: any sequence of flag_add, flag_add_with_validator,        *)
(* flag_add_subcommand and subcommand_add_flag on a new context.  A failed *)
(* f_assert prints its message and aborts (assert, without NDEBUG as in    *)
(* the documented build).                                                  *)
(***************************************************************************)

\* The flag_capacity given to flag_add_subcommand.
MaxCapacity == 1

SIGABRT == "SIGABRT"

\* The handlers given to flag_add_subcommand: a function or NULL.
Handlers == {"handle_cmd", NULL}

InitReg ==
  /\ ctx = flag_context_init
  /\ argv = MakeArgv(<<>>)
  /\ pc = "registering"
  /\ i = 0
  /\ subcmd = 0
  /\ subcmdIndex = -1
  /\ proccessed_flags = <<>>
  /\ cells = [count |-> WZero]
  /\ status = "running"
  /\ result = 0
  /\ stderr = <<>>
  /\ stdout = <<>>
  /\ writes = <<>>
  /\ vcalls = <<>>
  /\ calls = <<>>

\* The registration became c.
Registered(c) ==
  /\ ctx' = c
  /\ UNCHANGED <<argv, pc, i, subcmd, subcmdIndex, proccessed_flags, cells, status,
                 result, stderr, stdout, writes, vcalls, calls>>

\* f_assert failed: fprintf(stderr, format, ...), then assert aborts.
AssertFailed(text, name) ==
  /\ pc' = "aborted"
  /\ status' = SIGABRT
  /\ stderr' = Append(stderr, Diag(text, name, ""))
  /\ UNCHANGED <<ctx, argv, i, subcmd, subcmdIndex, proccessed_flags, cells,
                 result, stdout, writes, vcalls, calls>>

\* flag_add(ctx, name, &count, FLAG_INT, ..., false)
AddFlag(name) ==
  /\ pc = "registering"
  /\ IF flag_add_has_capacity(ctx)
     THEN Registered(flag_add(ctx, name, "count", "FLAG_INT", FALSE))
     ELSE AssertFailed("[ERROR]: Not enough capacity in global flags to add flag: ", name)

\* flag_add(ctx, "count", &count, FLAG_INT, ..., false)
RegisterFlag == AddFlag("count")

\* flag_add_with_validator(ctx, "count", &count, FLAG_INT, ..., false, NULL):
\* flag_add, then the validator of the flag just added.
RegisterFlagWithValidator ==
  /\ pc = "registering"
  /\ IF flag_add_has_capacity(ctx)
     THEN Registered(flag_add_with_validator(ctx, "count", "count", "FLAG_INT", FALSE, NULL_PTR))
     ELSE AssertFailed("[ERROR]: Not enough capacity in global flags to add flag: ", "count")

\* flag_add_subcommand(ctx, "cmd", ..., handler, MaxCapacity)
RegisterSubcommand ==
  /\ pc = "registering"
  /\ \E handler \in Handlers :
       IF ~(MAX_SUBCOMMANDS > Len(ctx.subcommands))
       THEN AssertFailed("[ERROR]: Not enough capacity in subcommands to add subcommand: ", "cmd")
       ELSE IF ~flag_add_subcommand_ok(ctx, handler)
       THEN AssertFailed("can not add subcommand with NULL handler", "cmd")
       ELSE Registered(flag_add_subcommand(ctx, "cmd", handler, MaxCapacity))

\* subcommand_add_flag(subcmd, name, &count, FLAG_INT, ..., false, NULL) on
\* the subcommand that flag_add_subcommand returned last, as main adds the
\* flags of a subcommand right after the subcommand.
AddSubcommandFlag(name) ==
  /\ pc = "registering"
  /\ Len(ctx.subcommands) > 0
  /\ IF subcommand_add_flag_has_capacity(ctx.subcommands[Len(ctx.subcommands)])
     THEN Registered(subcommand_add_flag(ctx, name, "count", "FLAG_INT", FALSE, NULL_PTR))
     ELSE AssertFailed("[ERROR]: Not enough capacity new subcommand flag: ", name)

RegisterSubcommandFlag == AddSubcommandFlag("count")

NextReg ==
  RegisterFlag \/ RegisterFlagWithValidator \/ RegisterSubcommand \/ RegisterSubcommandFlag

SpecReg == InitReg /\ [][NextReg]_vars

(***************************************************************************)
(* Registration of a few descriptors under the names a caller may choose,  *)
(* the name of the built-in help flag among them                           *)
(***************************************************************************)

\* The most descriptors the caller registers.
MaxRegistrations == 4

RegNames == {"count", "name", "help"}

RECURSIVE SubcommandFlagCount(_, _)
SubcommandFlagCount(c, k) ==
  IF k > Len(c.subcommands) THEN 0
  ELSE Len(c.subcommands[k].flags) + SubcommandFlagCount(c, k + 1)

\* The descriptors registered by the caller: all but the built-in help flag.
Registrations(c) == (Len(c.flags) - 1) + Len(c.subcommands) + SubcommandFlagCount(c, 1)

RegisterNamedFlag ==
  /\ Registrations(ctx) < MaxRegistrations
  /\ \E name \in RegNames : AddFlag(name)

RegisterNamedSubcommand ==
  /\ Registrations(ctx) < MaxRegistrations
  /\ RegisterSubcommand

RegisterNamedSubcommandFlag ==
  /\ Registrations(ctx) < MaxRegistrations
  /\ \E name \in RegNames : AddSubcommandFlag(name)

NextNames == RegisterNamedFlag \/ RegisterNamedSubcommand \/ RegisterNamedSubcommandFlag

SpecNames == InitReg /\ [][NextNames]_vars

(***************************************************************************)
(* The vocabulary of the properties                                        *)
(***************************************************************************)

\* The indices of the arguments after the program name.
ArgIndices == 1..(Argc(argv) - 1)

HasDash(tok) == tok # "" /\ Head(tok) = "-"

\* The two spellings of a flag on the command line.
DashForms(name) == {"-" \o name, "--" \o name}

Min(S) == CHOOSE x \in S : \A y \in S : x <= y

\* The first pass went past argv[k] without exiting or breaking there.
Scanned(k) == k < i

\* The parse ended at argv[k] by an exit or a crash.
StoppedAt(k) == pc = "done" /\ status # "returned" /\ i = k

\* The token at argv[k] caused the store of v into cell c.
Wrote(k, c, v) ==
  \E n \in 1..Len(writes) : writes[n].at = k /\ writes[n].cell = c /\ writes[n].value = v

WroteAt(k) == \E n \in 1..Len(writes) : writes[n].at = k

\* A decimal token: an optional sign, then one or more digits.
IsDecimal(tok) ==
  /\ tok # ""
  /\ LET body == IF Head(tok) \in {"-", "+"} THEN Tail(tok) ELSE tok
     IN  body # "" /\ \A n \in 1..Len(body) : SubSeq(body, n, n) \in Digits

\* The digits of a decimal token without leading zeros.
RECURSIVE StripZeros(_)
StripZeros(d) == IF Len(d) > 1 /\ Head(d) = "0" THEN StripZeros(Tail(d)) ELSE d

Magnitude(tok) == StripZeros(IF Head(tok) \in {"-", "+"} THEN Tail(tok) ELSE tok)

Negative(tok) == Head(tok) = "-" /\ Magnitude(tok) # "0"

\* The number a decimal token denotes, in its shortest decimal writing.
Canonical(tok) == IF Negative(tok) THEN "-" \o Magnitude(tok) ELSE Magnitude(tok)

\* a <= b for numbers written in digits without leading zeros.
RECURSIVE DigitsLeq(_, _)
DigitsLeq(a, b) ==
  IF a = "" THEN TRUE
  ELSE IF Head(a) # Head(b) THEN DigitVal(Head(a)) < DigitVal(Head(b))
  ELSE DigitsLeq(Tail(a), Tail(b))

MagnitudeLeq(a, b) == Len(a) < Len(b) \/ (Len(a) = Len(b) /\ DigitsLeq(a, b))

\* The largest value of each integer type and the magnitude of its smallest,
\* under LP64.
MaxOf(type) ==
  CASE type \in {"FLAG_INT8"} -> "127"
    [] type \in {"FLAG_INT16"} -> "32767"
    [] type \in {"FLAG_INT", "FLAG_INT32"} -> "2147483647"
    [] type \in {"FLAG_INT64"} -> "9223372036854775807"
    [] type \in {"FLAG_UINT8"} -> "255"
    [] type \in {"FLAG_UINT16"} -> "65535"
    [] type \in {"FLAG_UINT", "FLAG_UINT32"} -> "4294967295"
    [] type \in {"FLAG_UINT64", "FLAG_SIZE_T", "FLAG_UINTPTR"} -> "18446744073709551615"

MinMagnitudeOf(type) ==
  CASE type \in {"FLAG_INT8"} -> "128"
    [] type \in {"FLAG_INT16"} -> "32768"
    [] type \in {"FLAG_INT", "FLAG_INT32"} -> "2147483648"
    [] type \in {"FLAG_INT64"} -> "9223372036854775808"
    [] type \in UnsignedTypes -> "0"

\* The number a decimal token denotes is a value of the type.
InRange(type, tok) ==
  IF Negative(tok) THEN MagnitudeLeq(Magnitude(tok), MinMagnitudeOf(type))
  ELSE MagnitudeLeq(Magnitude(tok), MaxOf(type))

\* The integer flags that argv[k] names: global ones in either dash form
\* before the subcommand, and, after the selected subcommand, its flags in
\* the single-dash form.
GlobalIntegerAt(k) ==
  {j \in 1..Len(ctx.flags) : /\ subcmd = 0 \/ k < i
                             /\ ctx.flags[j].type \in IntegerTypes
                             /\ ctx.flags[j].value # NULL
                             /\ argv[k] \in DashForms(ctx.flags[j].name)}

SelectedIntegerAt(k) ==
  IF subcmd = 0 \/ k <= i THEN {}
  ELSE {j \in 1..Len(ctx.subcommands[subcmd].flags) :
          /\ ctx.subcommands[subcmd].flags[j].type \in IntegerTypes
          /\ argv[k] = "-" \o ctx.subcommands[subcmd].flags[j].name}

\* The second pass went past argv[k]; it ended at argv[k] by an exit or a
\* crash.
Scanned2(k) == pc = "done" /\ status = "returned" /\ subcmd # 0 /\ k > i

StoppedAt2(k) == pc = "done" /\ status # "returned" /\ subcmd # 0 /\ subcmdIndex = k + 1

\* argv[k] caused the store of a number into cell c that printf shows as
\* text.
WroteNumber(k, c, type, text) ==
  \E n \in 1..Len(writes) :
    writes[n].at = k /\ writes[n].cell = c /\ PrintCell(type, writes[n].value) = text

\* The parse ended with the failure status after one diagnostic naming the
\* flag.
FailedNaming(name) ==
  status = "EXIT_FAILURE" /\ Len(stderr) = 1 /\ stderr[1].flag = name

(***************************************************************************)
(* C1                                                                      *)
(***************************************************************************)

\* The arguments without a leading dash that equal a registered subcommand
\* name.
SubcommandTokens ==
  {k \in ArgIndices : /\ ~HasDash(argv[k])
                      /\ \E s \in 1..Len(ctx.subcommands) :
                           ctx.subcommands[s].name = argv[k]}

AllFlagNames ==
  {ctx.flags[j].name : j \in 1..Len(ctx.flags)} \cup
  UNION {{ctx.subcommands[k].flags[j].name : j \in 1..Len(ctx.subcommands[k].flags)} :
         k \in 1..Len(ctx.subcommands)}

AllSubcommandNames == {ctx.subcommands[k].name : k \in 1..Len(ctx.subcommands)}

\* v is a value token as C2 describes it: no leading dash, no flag name, no
\* subcommand name.
IsValueToken(v) == ~HasDash(v) /\ v \notin AllFlagNames \cup AllSubcommandNames

\* What the registered validator accepts of a decimal token.
ValidatorAccepts(f, v) ==
  \/ f.flag_validator = NULL_PTR
  \/ Deref(f.flag_validator).validator = "validate_int"
       /\ Canonical(v) \in {"0", "1", "2", "3", "4", "5", "6", "7", "8", "9", "10"}

\* v is a value of the type of the flag f that its validator accepts.
IsValidFor(f, v) ==
  CASE f.type = "FLAG_STRING" -> TRUE
    [] f.type = "FLAG_BOOL" -> StrLower(v) \in {"true", "false"}
    [] f.type \in IntegerTypes ->
         IsDecimal(v) /\ InRange(f.type, v) /\ ValidatorAccepts(f, v)

\* argv[k], argv[k+1] is a pair -flag value for the j-th flag of flags.
IsPairOf(flags, j, k) ==
  /\ flags[j].value # NULL
  /\ argv[k] = "-" \o flags[j].name
  /\ IsValueToken(argv[k + 1])

\* The indices of the flags of p pairs before the subcommand, and of q pairs
\* after it.
GlobalPairIndices(p) == {2 * n - 1 : n \in 1..p}

SubPairIndices(p, q) == {2 * p + 2 * n : n \in 1..q}

\* argv is p global pairs, the name of the subcommand s, then q of its pairs.
HasShape(p, s, q) ==
  /\ Argc(argv) - 1 = 2 * p + 1 + 2 * q
  /\ argv[2 * p + 1] = ctx.subcommands[s].name
  /\ \A k \in GlobalPairIndices(p) : \E j \in 1..Len(ctx.flags) : IsPairOf(ctx.flags, j, k)
  /\ \A k \in SubPairIndices(p, q) : \E j \in 1..Len(ctx.subcommands[s].flags) :
       IsPairOf(ctx.subcommands[s].flags, j, k)

\* Every value of the pairs at the indices ks is valid for its flag.
PairsValid(flags, ks) ==
  \A k \in ks : \A j \in 1..Len(flags) :
    IsPairOf(flags, j, k) => IsValidFor(flags[j], argv[k + 1])

\* Every pair at the indices ks has stored into the cell of its flag.
PairsWrote(flags, ks) ==
  \A k \in ks : \A j \in 1..Len(flags) :
    IsPairOf(flags, j, k) =>
      \E n \in 1..Len(writes) : writes[n].at = k /\ writes[n].cell = flags[j].value

\* The cell of f holds the value v converted to the type of f.
HoldsValue(f, v) ==
  CASE f.type = "FLAG_STRING" -> cells[f.value] = v
    [] f.type = "FLAG_BOOL" -> cells[f.value] = (StrLower(v) = "true")
    [] f.type \in IntegerTypes -> PrintCell(f.type, cells[f.value]) = Canonical(v)

\* Of the pairs at the indices ks, the last one for each cell has left its
\* value in the cell.
LastPairsHold(flags, ks) ==
  \A k \in ks : \A j \in 1..Len(flags) :
    (/\ IsPairOf(flags, j, k)
     /\ \A k2 \in ks : \A j2 \in 1..Len(flags) :
          (k2 > k /\ IsPairOf(flags, j2, k2)) => flags[j2].value # flags[j].value)
      => HoldsValue(flags[j], argv[k + 1])

C2_Example == MakeArgv(<<"-int", "5", "-string", "hi", "greet", "-name", "World">>)

GlobalCells == {ctx.flags[j].value : j \in 1..Len(ctx.flags)}

SelectedCells ==
  IF subcmd = 0 THEN {}
  ELSE {ctx.subcommands[subcmd].flags[j].value :
          j \in 1..Len(ctx.subcommands[subcmd].flags)}

\* C3: once a subcommand name has been matched at argv[i], no argument after
\* it causes a store into a cell bound to a global flag (one that is not also
\* bound to a flag of the selected subcommand) or a call of a global flag's
\* validator, whatever its spelling.
C3_NoGlobalEffectAfterSubcommand ==
  subcmd # 0 =>
    /\ \A n \in 1..Len(writes) :
         writes[n].at > i => writes[n].cell \notin (GlobalCells \ SelectedCells)
    /\ \A n \in 1..Len(vcalls) : vcalls[n].at < i

\* A parse that ended with a subcommand selected and, after its name, a
\* global flag in dash form followed by one more argument.
C3_Witness ==
  /\ pc = "done"
  /\ subcmd # 0
  /\ \E k \in ArgIndices, j \in 1..Len(ctx.flags) :
       /\ k > i
       /\ k + 1 \in ArgIndices
       /\ ctx.flags[j].value # NULL
       /\ argv[k] \in DashForms(ctx.flags[j].name)

(***************************************************************************)
(* C4                                                                      *)
(***************************************************************************)

\* argv[k] has a dash form of a global flag that takes a value.
TakesValue(k) ==
  \E j \in 1..Len(ctx.flags) :
    ctx.flags[j].type # "FLAG_BOOL" /\ argv[k] \in DashForms(ctx.flags[j].name)

\* argv[k] is the value of the flag before it.
RECURSIVE IsValueIndex(_)
IsValueIndex(k) == k >= 2 /\ TakesValue(k - 1) /\ ~IsValueIndex(k - 1)

\* C4: the argument consumed as the value of a global flag is not examined
\* again by the first pass: it selects no subcommand, matches no flag and
\* asks for no help.
C4_ValueNotReexamined ==
  /\ subcmd # 0 => ~IsValueIndex(i)
  /\ status = "EXIT_SUCCESS" => ~IsValueIndex(i)
  /\ \A n \in 1..Len(writes) :
       writes[n].phase = "phase1" => ~IsValueIndex(writes[n].at)

(***************************************************************************)
(* C5                                                                      *)
(***************************************************************************)

\* What a caller can see of a finished parse.
Outcome(m) == [cells |-> m.cells, result |-> m.result, status |-> m.status]

\* parse_flags on the command line a, from the state before the call.
RunFrom(a, ub) == Run(ctx, a, NewParse(cells), ub)

\* The names that -n and --n may carry: the global flags and the flags of
\* the subcommand that the command line a selects.
NamesFor(a, ub) ==
  {ctx.flags[j].name : j \in 1..Len(ctx.flags)} \cup
  (IF RunFrom(a, ub).subcmd = 0 THEN {}
   ELSE {ctx.subcommands[RunFrom(a, ub).subcmd].flags[j].name :
           j \in 1..Len(ctx.subcommands[RunFrom(a, ub).subcmd].flags)})

\* C5: for a registered global flag and for a flag of the selected
\* subcommand, -n and --n are the same: spelling such an argument (here one
\* that has an argument after it) the other way changes neither the cells,
\* nor the result, nor the exit.
C5_DashSpellingsEquivalent ==
  pc = "entry" =>
    \A k \in ArgIndices, ub \in UBOutcomes :
      \A n \in NamesFor(argv, ub) :
        (argv[k] = "-" \o n /\ k + 1 \in ArgIndices) =>
          Outcome(RunFrom(argv, ub)) = Outcome(RunFrom([argv EXCEPT ![k] = "--" \o n], ub))

(***************************************************************************)
(* C6, C7 and C8                                                           *)
(***************************************************************************)

\* The parse ended at argv[k] because the validator of the j-th global flag
\* refused the stored value.
RejectedByValidator(k, j) ==
  /\ ctx.flags[j].flag_validator # NULL_PTR
  /\ \E n \in 1..Len(vcalls) : vcalls[n].at = k /\ vcalls[n].flag = ctx.flags[j].name
  /\ FailedNaming(ctx.flags[j].name)
  /\ stderr[1].text = "Error: Invalid value for flag "

\* C6: for a matched flag of any integer type, before or after the
\* subcommand, a decimal value token that denotes a value of the type is
\* accepted by the conversion and the cell receives exactly that number (only
\* the flag's validator can still refuse the stored number).
C6_InRangeStoredExactly ==
  \A k \in ArgIndices :
    (k + 1 \in ArgIndices /\ IsDecimal(argv[k + 1])) =>
      /\ \A j \in GlobalIntegerAt(k) :
           InRange(ctx.flags[j].type, argv[k + 1]) =>
             /\ StoppedAt(k) => RejectedByValidator(k, j)
             /\ (Scanned(k) \/ StoppedAt(k)) =>
                  WroteNumber(k, ctx.flags[j].value, ctx.flags[j].type,
                              Canonical(argv[k + 1]))
      /\ \A j \in SelectedIntegerAt(k) :
           InRange(ctx.subcommands[subcmd].flags[j].type, argv[k + 1]) =>
             /\ ~StoppedAt2(k)
             /\ Scanned2(k) => WroteNumber(k, ctx.subcommands[subcmd].flags[j].value,
                                           ctx.subcommands[subcmd].flags[j].type,
                                           Canonical(argv[k + 1]))

\* A parse returned after a global int8 flag took -128; another after a
\* uint64 flag of a subcommand took 18446744073709551615.
C6_Witness ==
  /\ pc = "done"
  /\ status = "returned"
  /\ \/ \E j \in GlobalIntegerAt(1) :
          /\ ctx.flags[j].type = "FLAG_INT8"
          /\ Argc(argv) = 3
          /\ argv[2] = "-128"
          /\ PrintCell("FLAG_INT8", cells[ctx.flags[j].value]) = "-128"
     \/ /\ Argc(argv) = 4
        /\ \E j \in SelectedIntegerAt(2) :
             /\ ctx.subcommands[subcmd].flags[j].type = "FLAG_UINT64"
             /\ argv[3] = "18446744073709551615"
             /\ PrintCell("FLAG_UINT64", cells[ctx.subcommands[subcmd].flags[j].value])
                  = "18446744073709551615"

\* The token is out of the type's range on the side that C7 speaks of: above
\* the maximum, or, for a signed type, below the minimum.
OutOfRange(type, tok) ==
  /\ IsDecimal(tok)
  /\ ~InRange(type, tok)
  /\ type \in UnsignedTypes => ~Negative(tok)

\* C7: for a matched flag of any integer type, FLAG_INT included, a decimal
\* value token above the type's maximum (or, for a signed type, below its
\* minimum) is fatal: a diagnostic naming the flag, the failure status, and
\* nothing stored.
C7_OutOfRangeIsFatal ==
  \A k \in ArgIndices :
    k + 1 \in ArgIndices =>
      /\ \A j \in GlobalIntegerAt(k) :
           OutOfRange(ctx.flags[j].type, argv[k + 1]) =>
             /\ ~Scanned(k)
             /\ ~WroteAt(k)
             /\ (pc = "done" /\ i = k) => FailedNaming(ctx.flags[j].name)
      /\ \A j \in SelectedIntegerAt(k) :
           OutOfRange(ctx.subcommands[subcmd].flags[j].type, argv[k + 1]) =>
             /\ ~Scanned2(k)
             /\ ~WroteAt(k)
             /\ (pc = "done" /\ subcmdIndex = k + 1) =>
                  FailedNaming(ctx.subcommands[subcmd].flags[j].name)

\* C8: for a matched flag of any integer type, before or after the
\* subcommand, a value token that is not an optional sign and one or more
\* digits is fatal: a diagnostic naming the flag, the failure status, and
\* nothing converted and stored.
C8_NonIntegerIsFatal ==
  \A k \in ArgIndices :
    (k + 1 \in ArgIndices /\ ~IsDecimal(argv[k + 1])) =>
      /\ \A j \in GlobalIntegerAt(k) :
           /\ ~Scanned(k)
           /\ ~WroteAt(k)
           /\ (pc = "done" /\ i = k) => FailedNaming(ctx.flags[j].name)
      /\ \A j \in SelectedIntegerAt(k) :
           /\ ~Scanned2(k)
           /\ ~WroteAt(k)
           /\ (pc = "done" /\ subcmdIndex = k + 1) =>
                FailedNaming(ctx.subcommands[subcmd].flags[j].name)

(***************************************************************************)
(* C9 and C10                                                              *)
(***************************************************************************)

\* The global boolean flags bound to a cell that argv[k], an argument that
\* is not after the subcommand, names.
GlobalBoolAt(k) ==
  {j \in 1..Len(ctx.flags) : /\ subcmd = 0 \/ k < i
                             /\ ctx.flags[j].type = "FLAG_BOOL"
                             /\ ctx.flags[j].value # NULL
                             /\ argv[k] \in DashForms(ctx.flags[j].name)}

\* The boolean word after argv[k], without regard to case; "true" when
\* argv[k] is the last argument.
BoolWordAfter(k) == IF k = Argc(argv) - 1 THEN "true" ELSE StrLower(argv[k + 1])

\* C9: a global boolean flag that is the last argument stores true; followed
\* by "true" or "false" in any case of letters it stores that value; neither
\* is an error.
C9_GlobalBoolValue ==
  \A k \in ArgIndices : \A j \in GlobalBoolAt(k) :
    BoolWordAfter(k) \in {"true", "false"} =>
      /\ ~StoppedAt(k)
      /\ Scanned(k) => Wrote(k, ctx.flags[j].value, BoolWordAfter(k) = "true")

\* The first pass went past a global boolean flag followed by "False" and
\* past one that was the last argument.
C9_Witness ==
  /\ \E k \in ArgIndices : \E j \in GlobalBoolAt(k) :
       /\ k + 1 \in ArgIndices
       /\ argv[k + 1] = "False"
       /\ Wrote(k, ctx.flags[j].value, FALSE)
  /\ \E k \in ArgIndices : \E j \in GlobalBoolAt(k) :
       /\ k = Argc(argv) - 1
       /\ Wrote(k, ctx.flags[j].value, TRUE)

\* argv[k] is followed by an argument that is neither "true" nor "false".
NonBooleanAfter(k) == k + 1 \in ArgIndices /\ StrLower(argv[k + 1]) \notin {"true", "false"}

\* C10 as stated: a global boolean flag followed by an argument that is
\* neither "true" nor "false" stores true and the parse goes on without an
\* error.
C10_NonBooleanMeansTrue ==
  \A k \in ArgIndices : \A j \in GlobalBoolAt(k) :
    NonBooleanAfter(k) =>
      /\ ~StoppedAt(k)
      /\ Scanned(k) => Wrote(k, ctx.flags[j].value, TRUE)

\* C10, amended: a global boolean flag followed by an argument that is
\* neither "true" nor "false" is fatal: the first pass never goes past it, it
\* stores nothing, and a parse that ends there ends with the failure status
\* after the diagnostic "Invalid boolean value" naming the flag.
C10_NonBooleanIsFatal ==
  \A k \in ArgIndices : \A j \in GlobalBoolAt(k) :
    NonBooleanAfter(k) =>
      /\ ~Scanned(k)
      /\ ~WroteAt(k)
      /\ (pc = "done" /\ i = k) =>
           /\ status = "EXIT_FAILURE"
           /\ stderr = <<Diag("Error: Invalid boolean value for flag ",
                              ctx.flags[j].name, "")>>

\* A parse ended at a global boolean flag followed by "maybe".
C10_Witness ==
  /\ pc = "done"
  /\ status = "EXIT_FAILURE"
  /\ \E k \in ArgIndices : \E j \in GlobalBoolAt(k) :
       i = k /\ NonBooleanAfter(k) /\ argv[k + 1] = "maybe"

(***************************************************************************)
(* C11                                                                     *)
(***************************************************************************)

\* The boolean flags of the selected subcommand that argv[k], an argument
\* after the subcommand, names.
SelectedBoolAt(k) ==
  IF subcmd = 0 \/ k <= i THEN {}
  ELSE {j \in 1..Len(ctx.subcommands[subcmd].flags) :
          /\ ctx.subcommands[subcmd].flags[j].type = "FLAG_BOOL"
          /\ argv[k] = "-" \o ctx.subcommands[subcmd].flags[j].name}

\* The second pass has gone past argv[k] and its value.
Passed2(k) == subcmd # 0 /\ subcmdIndex > k + 1

\* C11 as stated: a boolean flag of the subcommand followed by a word that is
\* neither "true" nor "false" is a hard error: the second pass ends there
\* with the failure status and stores nothing.
C11_SubcommandNonBooleanIsFatal ==
  \A k \in ArgIndices : \A j \in SelectedBoolAt(k) :
    NonBooleanAfter(k) =>
      /\ ~Passed2(k)
      /\ ~WroteAt(k)
      /\ (pc = "done" /\ subcmdIndex = k + 1) => status = "EXIT_FAILURE"

\* C11, amended: a boolean flag of the subcommand followed by a word that is
\* neither "true" nor "false" stores true; it is no error, nothing is
\* printed and the second pass goes on.
C11_SubcommandNonBooleanMeansTrue ==
  \A k \in ArgIndices : \A j \in SelectedBoolAt(k) :
    NonBooleanAfter(k) =>
      /\ ~StoppedAt2(k)
      /\ subcmdIndex > k =>
           /\ Wrote(k, ctx.subcommands[subcmd].flags[j].value, TRUE)
           /\ \A n \in 1..Len(stderr) : stderr[n].flag # ctx.subcommands[subcmd].flags[j].name

\* The second pass went past a boolean flag of the subcommand followed by
\* "maybe" and stored true.
C11_Witness ==
  \E k \in ArgIndices : \E j \in SelectedBoolAt(k) :
    /\ NonBooleanAfter(k)
    /\ argv[k + 1] = "maybe"
    /\ Passed2(k)
    /\ cells[ctx.subcommands[subcmd].flags[j].value] = TRUE

(***************************************************************************)
(* C12                                                                     *)
(***************************************************************************)

\* The global flags with a validator that argv[k], an argument that is not
\* after the subcommand, names.
ValidatedGlobalAt(k) ==
  {j \in 1..Len(ctx.flags) : /\ subcmd = 0 \/ k < i
                             /\ ctx.flags[j].value # NULL
                             /\ ctx.flags[j].flag_validator # NULL_PTR
                             /\ argv[k] \in DashForms(ctx.flags[j].name)}

\* What validate_int of main.c answers for a cell that printf shows as text.
IsFrom0To10(text) == text \in {"0", "1", "2", "3", "4", "5", "6", "7", "8", "9", "10"}

\* The text that follows the flag's name in the diagnostic of a refusal.
RefusalText(f) ==
  IF Deref(f.flag_validator).error_message = NULL THEN "Invalid value"
  ELSE Deref(f.flag_validator).error_message

\* C12: in the first pass the validator of a matched global flag is called
\* only after the conversion of that occurrence has stored its value, and on
\* that value; every stored value of such a flag is validated; a refusal
\* ends the parse with the failure status after a diagnostic with the flag's
\* name and the validator's message, or "Invalid value" without one; after
\* an acceptance the parse goes on.
C12_ValidatorAfterConversion ==
  /\ \A n \in 1..Len(vcalls) :
       /\ vcalls[n].stores \in 1..Len(writes)
       /\ writes[vcalls[n].stores].at = vcalls[n].at
       /\ writes[vcalls[n].stores].cell = vcalls[n].cell
       /\ writes[vcalls[n].stores].value = vcalls[n].value
       /\ writes[vcalls[n].stores].phase = "phase1"
  /\ \A k \in ArgIndices : \A j \in ValidatedGlobalAt(k) :
       /\ \A n \in 1..Len(writes) :
            (writes[n].at = k /\ writes[n].cell = ctx.flags[j].value) =>
              \E c \in 1..Len(vcalls) :
                vcalls[c].at = k /\ vcalls[c].flag = ctx.flags[j].name /\ vcalls[c].stores = n
       /\ \A c \in 1..Len(vcalls) :
            (vcalls[c].at = k /\ vcalls[c].flag = ctx.flags[j].name) =>
              IF IsFrom0To10(PrintCell(ctx.flags[j].type, vcalls[c].value))
              THEN ~StoppedAt(k)
              ELSE /\ StoppedAt(k)
                   /\ status = "EXIT_FAILURE"
                   /\ stderr = <<Diag("Error: Invalid value for flag ", ctx.flags[j].name,
                                      RefusalText(ctx.flags[j]))>>

\* A validator without a message refused 50: the parse ended with the
\* diagnostic "Invalid value".
C12_Witness ==
  /\ pc = "done"
  /\ status = "EXIT_FAILURE"
  /\ \E k \in ArgIndices : \E j \in ValidatedGlobalAt(k) :
       /\ i = k
       /\ Deref(ctx.flags[j].flag_validator).error_message = NULL
       /\ \E c \in 1..Len(vcalls) :
            vcalls[c].at = k /\ PrintCell("FLAG_INT", vcalls[c].value) = "50"
       /\ stderr = <<Diag("Error: Invalid value for flag ", ctx.flags[j].name, "Invalid value")>>

(***************************************************************************)
(* C13                                                                     *)
(***************************************************************************)

\* The flags with a validator of the selected subcommand that argv[k], an
\* argument after the subcommand, names.
ValidatedSelectedAt(k) ==
  IF subcmd = 0 \/ k <= i THEN {}
  ELSE {j \in 1..Len(ctx.subcommands[subcmd].flags) :
          /\ ctx.subcommands[subcmd].flags[j].flag_validator # NULL_PTR
          /\ argv[k] = "-" \o ctx.subcommands[subcmd].flags[j].name}

\* C13: the validator of a subcommand flag is called on the converted value
\* when the flag is matched in the second pass, and a value it refuses (a
\* number outside 0..10 for validate_int) ends the parse there with the
\* failure status.
C13_SubcommandValidatorRuns ==
  \A k \in ArgIndices : \A j \in ValidatedSelectedAt(k) :
    /\ \A n \in 1..Len(writes) :
         (/\ k + 1 \in ArgIndices
          /\ writes[n].at = k
          /\ writes[n].cell = ctx.subcommands[subcmd].flags[j].value) =>
           \E c \in 1..Len(vcalls) :
             vcalls[c].at = k /\ vcalls[c].cell = ctx.subcommands[subcmd].flags[j].value
    /\ (/\ k + 1 \in ArgIndices
        /\ IsDecimal(argv[k + 1])
        /\ InRange(ctx.subcommands[subcmd].flags[j].type, argv[k + 1])
        /\ ~IsFrom0To10(Canonical(argv[k + 1]))) =>
          /\ ~Passed2(k)
          /\ pc = "done" =>
               /\ StoppedAt2(k)
               /\ FailedNaming(ctx.subcommands[subcmd].flags[j].name)
               /\ stderr[1].text = "Error: Invalid value for flag "

(***************************************************************************)
(* C14 and C15                                                             *)
(***************************************************************************)

\* The required flags of the selected subcommand that no argument after the
\* subcommand names, with one dash or none.
RequiredMissing ==
  IF subcmd = 0 THEN {}
  ELSE {j \in 1..Len(ctx.subcommands[subcmd].flags) :
          /\ ctx.subcommands[subcmd].flags[j].required
          /\ \A k \in ArgIndices :
               k > i => argv[k] \notin {ctx.subcommands[subcmd].flags[j].name,
                                        "-" \o ctx.subcommands[subcmd].flags[j].name}}

\* C14: when a subcommand is selected and a required flag of it is named by
\* no argument after the subcommand, parse_flags does not return; unless an
\* earlier error ended the parse, it prints a diagnostic naming such a flag
\* and the help text, and exits with the failure status.
C14_RequiredSubcommandFlag ==
  (pc = "done" /\ subcmd # 0 /\ RequiredMissing # {}) =>
    /\ status \in {"EXIT_FAILURE", UB_CRASH}
    /\ status = "EXIT_FAILURE" =>
         /\ Len(stderr) = 1
         /\ stderr[1].text \in {"[ERROR]: Flag is required",
                                "Error: Invalid value for flag ",
                                "Error: Integer overflow for flag "}
         /\ stderr[1].text = "[ERROR]: Flag is required" =>
              /\ subcmdIndex >= Argc(argv)
              /\ \E j \in RequiredMissing :
                   stderr[1].flag = ctx.subcommands[subcmd].flags[j].name
              /\ stdout = <<print_help(ctx, argv)>>
    /\ (status = "EXIT_FAILURE" /\ subcmdIndex >= Argc(argv)) =>
         stderr[1].text = "[ERROR]: Flag is required"

\* A parse ended with the diagnostic for a required flag that was not given,
\* after a subcommand followed by other arguments.
C14_Witness ==
  /\ pc = "done"
  /\ status = "EXIT_FAILURE"
  /\ subcmd # 0
  /\ RequiredMissing # {}
  /\ Argc(argv) > i + 1
  /\ stderr[1].text = "[ERROR]: Flag is required"

\* The required global flags that no argument names.
GlobalRequiredMissing ==
  {j \in 1..Len(ctx.flags) :
     /\ ctx.flags[j].required
     /\ \A k \in ArgIndices : argv[k] \notin DashForms(ctx.flags[j].name)}

\* C15: parse_flags never returns while a required global flag is named by
\* no argument, with or without a subcommand.
C15_RequiredGlobalFlag ==
  (pc = "done" /\ GlobalRequiredMissing # {}) => status # "returned"

(***************************************************************************)
(* C16                                                                     *)
(***************************************************************************)

\* The help path: the help text on the output stream, nothing on the error
\* stream, exit(EXIT_SUCCESS).
EndedByHelp ==
  /\ pc = "done"
  /\ status = "EXIT_SUCCESS"
  /\ stdout = <<print_help(ctx, argv)>>
  /\ stderr = <<>>

\* An error path: a diagnostic on the error stream, exit(EXIT_FAILURE).
EndedByError ==
  /\ pc = "done"
  /\ status = "EXIT_FAILURE"
  /\ Len(stderr) >= 1

\* C16: whenever parse_flags ends the process instead of returning, it does
\* so through the help path with the success status or through an error path
\* (a flag without its value included) with a diagnostic on the error stream
\* and the failure status.
C16_TerminationIsHelpOrError ==
  (pc = "done" /\ status # "returned") => (EndedByHelp \/ EndedByError)

(***************************************************************************)
(* C17                                                                     *)
(***************************************************************************)

\* The cells as they were before the call: the registration-time values of
\* the registry in use.
CellsAtEntry == (CHOOSE r \in Registries : r.ctx = ctx /\ DOMAIN r.cells = DOMAIN cells).cells

\* C17, as stated: when parse_flags ends through the help path, no cell has
\* been written and no validator has been called, whatever precedes the help
\* token.
C17_HelpHasNoEffect ==
  EndedByHelp => (writes = <<>> /\ vcalls = <<>> /\ cells = CellsAtEntry)

\* C17, amended: when parse_flags exits with the success status, it is at a
\* help token of the first pass, after printing the help text only, and the
\* help request itself has no other effect: every write and every validator
\* call was made for a global flag token before the help token, and a cell
\* nothing was stored to holds its value of before the call.
C17_HelpAddsNoEffect ==
  (pc = "done" /\ status = "EXIT_SUCCESS") =>
    /\ EndedByHelp
    /\ subcmd = 0
    /\ i \in ArgIndices
    /\ argv[i] \in DashForms("help")
    /\ \A n \in 1..Len(writes) :
         /\ writes[n].at \in ArgIndices
         /\ writes[n].at < i
         /\ argv[writes[n].at] \in DashForms(writes[n].flag)
    /\ \A c \in 1..Len(vcalls) :
         /\ vcalls[c].at < i
         /\ \E n \in 1..Len(writes) : writes[n].at = vcalls[c].at
    /\ \A c \in DOMAIN cells :
         (\A n \in 1..Len(writes) : writes[n].cell # c) => cells[c] = CellsAtEntry[c]
    /\ (\A k \in ArgIndices : \A j \in 1..Len(ctx.flags) :
          k < i => argv[k] \notin DashForms(ctx.flags[j].name)) =>
         (writes = <<>> /\ vcalls = <<>> /\ cells = CellsAtEntry)

\* A help request after a global flag whose value was stored and validated.
C17_Witness ==
  /\ EndedByHelp
  /\ Len(writes) >= 1
  /\ Len(vcalls) >= 1
  /\ cells # CellsAtEntry

(***************************************************************************)
(* C18                                                                     *)
(***************************************************************************)

\* The positions of the help tokens of the command line.
HelpIndices == {k \in ArgIndices : argv[k] \in DashForms("help")}

\* The parse was ended by an exit or a crash at a token before argv[k].
FailedBefore(k) ==
  /\ pc = "done"
  /\ status \in {"EXIT_FAILURE", UB_CRASH}
  /\ IF subcmd = 0 THEN i < k ELSE subcmdIndex <= k

\* C18: a command line with a help token, before or after a subcommand name,
\* ends with the help text and the success status and never returns, unless
\* an earlier token ended the parse with an error.
C18_HelpAnywhere ==
  (pc = "done" /\ HelpIndices # {}) =>
    (EndedByHelp \/ FailedBefore(Min(HelpIndices)))

(***************************************************************************)
(* C19                                                                     *)
(***************************************************************************)

\* C19: when parse_flags has matched a subcommand and returns, it has itself
\* called the callback of that subcommand, once, with the subcommand's flags,
\* their number and the context.
C19_ParseCallsCallback ==
  (pc = "done" /\ status = "returned" /\ result # 0) =>
    calls = <<subcommand_call(ctx.subcommands[result], ctx)>>

(***************************************************************************)
(* C20                                                                     *)
(***************************************************************************)

\* The tables are within their capacities and every subcommand has a handler.
TablesWithinCapacity ==
  /\ Len(ctx.flags) <= MAX_GLOBAL_FLAGS
  /\ Len(ctx.subcommands) <= MAX_SUBCOMMANDS
  /\ \A k \in 1..Len(ctx.subcommands) :
       /\ Len(ctx.subcommands[k].flags) <= ctx.subcommands[k].flag_capacity
       /\ ctx.subcommands[k].callback # NULL

\* No table has more descriptors in d than in c.
NothingAdded(c, d) ==
  /\ Len(d.flags) = Len(c.flags)
  /\ Len(d.subcommands) = Len(c.subcommands)
  /\ \A k \in 1..Len(c.subcommands) :
       Len(d.subcommands[k].flags) = Len(c.subcommands[k].flags)

\* A registration call: it adds one descriptor and goes on, or aborts with a
\* message and adds nothing; on a full table it adds nothing to that table.
RegistrationStep ==
  /\ pc = "registering"
  /\ \/ /\ pc' = "registering"
        /\ ~NothingAdded(ctx, ctx')
        /\ stderr' = stderr
     \/ /\ pc' = "aborted"
        /\ status' = SIGABRT
        /\ Len(stderr') = 1
        /\ ctx' = ctx
  /\ ~flag_add_has_capacity(ctx) => Len(ctx'.flags) = Len(ctx.flags)
  /\ Len(ctx.subcommands) >= MAX_SUBCOMMANDS =>
       Len(ctx'.subcommands) = Len(ctx.subcommands)
  /\ \A k \in 1..Len(ctx.subcommands) :
       ~subcommand_add_flag_has_capacity(ctx.subcommands[k]) =>
         Len(ctx'.subcommands[k].flags) = Len(ctx.subcommands[k].flags)

\* C20: after any sequence of registration calls the global flag count is at
\* most MAX_GLOBAL_FLAGS, the subcommand count at most MAX_SUBCOMMANDS and
\* each subcommand's flag count at most its flag_capacity; a registration on
\* a full table or of a subcommand with a NULL handler aborts and adds no
\* descriptor.
C20_RegistrationWithinCapacity ==
  [](TablesWithinCapacity) /\ [][RegistrationStep]_vars

\* A registration aborted on full tables.
C20_Witness ==
  /\ pc = "aborted"
  /\ Len(ctx.flags) = MAX_GLOBAL_FLAGS
  /\ Len(ctx.subcommands) = MAX_SUBCOMMANDS
  /\ \A k \in 1..Len(ctx.subcommands) :
       Len(ctx.subcommands[k].flags) = ctx.subcommands[k].flag_capacity
  /\ stderr[1].text = "[ERROR]: Not enough capacity in global flags to add flag: "

(***************************************************************************)
(* C21                                                                     *)
(***************************************************************************)

\* The flags of the table that the dash token argv[k] is matched against:
\* the global flags up to the subcommand, the flags of the subcommand after.
TableAt(k) ==
  IF subcmd = 0 \/ k < i THEN ctx.flags ELSE ctx.subcommands[subcmd].flags

NamesFlag(k, f) ==
  IF subcmd = 0 \/ k < i THEN argv[k] \in DashForms(f.name) ELSE argv[k] = "-" \o f.name

\* The occurrences of the flag f of the table flags in argv.
Occurrences(flags, f) ==
  {k \in ArgIndices : HasDash(argv[k]) /\ TableAt(k) = flags /\ NamesFlag(k, f)}

\* Every dash token of argv is an occurrence of a flag with a cell, followed
\* by a value valid for that flag.
AllOccurrencesValid ==
  \A k \in ArgIndices :
    HasDash(argv[k]) =>
      /\ k + 1 \in ArgIndices
      /\ IsValueToken(argv[k + 1])
      /\ \E j \in 1..Len(TableAt(k)) :
           /\ TableAt(k)[j].value # NULL
           /\ NamesFlag(k, TableAt(k)[j])
           /\ IsValidFor(TableAt(k)[j], argv[k + 1])

Last(S) == CHOOSE x \in S : \A y \in S : y <= x

\* The cell of f was stored to once for each occurrence, in their order, and
\* holds the converted value of the last one.
LastOccurrenceWon(flags, f) ==
  LET occ == Occurrences(flags, f)
      ws  == {n \in 1..Len(writes) : writes[n].cell = f.value}
  IN  occ # {} =>
        /\ Cardinality(ws) = Cardinality(occ)
        /\ \A n \in ws : writes[n].at \in occ /\ writes[n].from = writes[n].at + 1
        /\ \A n1, n2 \in ws : n1 < n2 => writes[n1].at < writes[n2].at
        /\ HoldsValue(f, argv[Last(occ) + 1])

\* C21: when every flag of the command line has a valid value, a flag given
\* several times, before the subcommand or after it, is no error, and the
\* parse ends with the value of its last occurrence in its cell.
C21_LastOccurrenceWins ==
  (pc = "done" /\ AllOccurrencesValid) =>
    /\ status = "returned" \/ (subcmd # 0 /\ RequiredMissing # {})
    /\ \A j \in 1..Len(ctx.flags) :
         ctx.flags[j].value # NULL => LastOccurrenceWon(ctx.flags, ctx.flags[j])
    /\ subcmd # 0 =>
         \A j \in 1..Len(ctx.subcommands[subcmd].flags) :
           LastOccurrenceWon(ctx.subcommands[subcmd].flags, ctx.subcommands[subcmd].flags[j])

\* A parse returned after a global flag and a subcommand flag were each given
\* twice with different values.
C21_Witness ==
  /\ pc = "done"
  /\ status = "returned"
  /\ AllOccurrencesValid
  /\ subcmd # 0
  /\ \E j \in 1..Len(ctx.flags) :
       LET occ == Occurrences(ctx.flags, ctx.flags[j])
       IN  \E k1, k2 \in occ : k1 < k2 /\ argv[k1 + 1] # argv[k2 + 1]
  /\ \E j \in 1..Len(ctx.subcommands[subcmd].flags) :
       LET occ == Occurrences(ctx.subcommands[subcmd].flags, ctx.subcommands[subcmd].flags[j])
       IN  \E k1, k2 \in occ : k1 < k2 /\ argv[k1 + 1] # argv[k2 + 1]

(***************************************************************************)
(* C22                                                                     *)
(***************************************************************************)

\* The dash tokens of the first pass whose name is no global flag's (help is
\* a global flag).
UnknownGlobalIndices ==
  {k \in ArgIndices :
     /\ HasDash(argv[k])
     /\ subcmd = 0 \/ k < i
     /\ \A j \in 1..Len(ctx.flags) : global_flag_name(argv[k]) # ctx.flags[j].name}

\* C22: a dash token before any subcommand name that names no global flag is
\* not passed over in silence: unless an earlier token ended the parse, the
\* help text is printed.
C22_UnknownFlagPrintsHelp ==
  (pc = "done" /\ UnknownGlobalIndices # {}) =>
    \/ stdout = <<print_help(ctx, argv)>>
    \/ FailedBefore(Min(UnknownGlobalIndices))

(***************************************************************************)
(* C23                                                                     *)
(***************************************************************************)

\* C23: the second pass advances by two tokens at each step, whether the
\* name matched a flag of the subcommand or not, so that only the tokens at
\* an odd distance from the subcommand name are examined as flag names and
\* store a value.
C23_Phase2AdvancesByTwo ==
  /\ [](\A n \in 1..Len(writes) :
          writes[n].phase = "phase2" => (writes[n].at - i) % 2 = 1)
  /\ [][(pc = "phase2" /\ pc' = "phase2") => subcmdIndex' = subcmdIndex + 2]_vars

(***************************************************************************)
(* C24                                                                     *)
(***************************************************************************)

RequiredText == "[ERROR]: Flag is required"

\* The parse ended with the diagnostic of a required flag that was not given.
EndedByRequired ==
  /\ pc = "done"
  /\ status = "EXIT_FAILURE"
  /\ Len(stderr) >= 1
  /\ stderr[Len(stderr)].text = RequiredText

\* Every argument after the subcommand was handled before the required flags
\* were checked: each one that names a flag of the subcommand and has a value
\* after it stored to the flag's cell.
AllSecondPassHandled ==
  /\ subcmdIndex >= Argc(argv)
  /\ \A k \in ArgIndices : \A j \in 1..Len(ctx.subcommands[subcmd].flags) :
       (/\ k > i
        /\ k + 1 \in ArgIndices
        /\ argv[k] \in {ctx.subcommands[subcmd].flags[j].name,
                        "-" \o ctx.subcommands[subcmd].flags[j].name}
        /\ \A j2 \in 1..(j - 1) :
             ctx.subcommands[subcmd].flags[j2].name # ctx.subcommands[subcmd].flags[j].name) =>
          \E n \in 1..Len(writes) :
            writes[n].at = k /\ writes[n].cell = ctx.subcommands[subcmd].flags[j].value

\* The required flags are checked, once, when the second pass is over.
RequiredCheckedAtEnd ==
  (stderr' # stderr /\ stderr'[Len(stderr')].text = RequiredText) =>
    /\ pc = "phase2"
    /\ pc' = "done"
    /\ subcmdIndex >= Argc(argv)
    /\ stderr = <<>>

\* C24: the required flags of the selected subcommand are checked once, after
\* every argument following the subcommand name has been handled: the
\* diagnostic names a required flag that appears nowhere after the subcommand
\* name, and a conversion error of the second pass is reported alone, instead
\* of the missing required flag.
C24_RequiredCheckedAfterSecondPass ==
  /\ [](EndedByRequired =>
          /\ subcmd # 0
          /\ Len(stderr) = 1
          /\ AllSecondPassHandled
          /\ \E j \in RequiredMissing :
               stderr[1].flag = ctx.subcommands[subcmd].flags[j].name)
  /\ []((pc = "done" /\ subcmd # 0 /\ status = "EXIT_FAILURE" /\ ~EndedByRequired) =>
          /\ Len(stderr) = 1
          /\ stdout = <<>>
          /\ subcmdIndex < Argc(argv)
          /\ FailedNaming(argv[subcmdIndex - 1])
             \/ FailedNaming(StrFrom(argv[subcmdIndex - 1], 1)))
  /\ []((pc = "done" /\ subcmd # 0 /\ status = "returned") => RequiredMissing = {})
  /\ [][RequiredCheckedAtEnd]_vars

\* A conversion error of the second pass ended the parse while a required
\* flag of the subcommand was not given.
C24_Witness ==
  /\ pc = "done"
  /\ subcmd # 0
  /\ status = "EXIT_FAILURE"
  /\ ~EndedByRequired
  /\ RequiredMissing # {}

(***************************************************************************)
(* C25                                                                     *)
(***************************************************************************)

\* C25: no flag registered by the caller, global or of a subcommand, has the
\* name of the built-in help flag.
C25_HelpNameReserved ==
  /\ \A j \in 2..Len(ctx.flags) : ctx.flags[j].name # "help"
  /\ \A k \in 1..Len(ctx.subcommands) : \A j \in 1..Len(ctx.subcommands[k].flags) :
       ctx.subcommands[k].flags[j].name # "help"

(***************************************************************************)
(* C26                                                                     *)
(***************************************************************************)

\* Each iteration that stays in its loop moves the index of that loop one
\* token forward.
ScanMovesForward ==
  /\ (pc = "phase1" /\ pc' = "phase1") => (i' = i + 1 /\ i < Argc(argv))
  /\ (pc = "phase2" /\ pc' = "phase2") =>
       (subcmdIndex' = subcmdIndex + 1 /\ subcmdIndex < Argc(argv) /\ i' = i)

\* While parse_flags runs it has no result; when it is over it has returned
\* NULL or a subcommand, or the process has ended.
NoPartialResult ==
  /\ pc \in {"entry", "phase1", "phase2"} => (status = "running" /\ result = 0)
  /\ pc \in {"done", "called"} =>
       /\ status \in {"returned", "EXIT_SUCCESS", "EXIT_FAILURE", UB_CRASH}
       /\ status = "returned" => result = subcmd
       /\ status # "returned" => result = 0

\* The steps that are left at most: the tokens the first loop has not
\* scanned and those the second has not, then the return and main's call of
\* the handler.
StepsLeft ==
  CASE pc = "entry"  -> 2 * Argc(argv) + 3
    [] pc = "phase1" -> 2 * Argc(argv) + 3 - i
    [] pc = "phase2" -> Argc(argv) + 2 - subcmdIndex
    [] pc = "done"   -> IF status = "returned" /\ result # 0 THEN 1 ELSE 0
    [] pc = "called" -> 0

\* A step is left in every state in which parse_flags has not ended.
StepLeft ==
  pc \in {"entry", "phase1", "phase2"} =>
    /\ StepsLeft >= 1
    /\ pc = "phase1" => i \in 1..Argc(argv)
    /\ pc = "phase2" => subcmdIndex \in (i + 1)..Argc(argv)

\* C26: parse_flags terminates on every command line and registry: each loop
\* moves its index one token forward at every iteration and revisits none,
\* so that every step leaves fewer steps to take, at most 2 argc + 3 in all;
\* the call ends by returning a subcommand or NULL or by ending the process,
\* and has no result before that.
C26_ParseTerminates ==
  /\ [][ScanMovesForward /\ StepsLeft' < StepsLeft /\ StepsLeft' >= 0]_vars
  /\ [](StepLeft /\ NoPartialResult)

\* Both loops ran to the end of argv and the subcommand was returned.
C26_Witness ==
  /\ pc = "done"
  /\ status = "returned"
  /\ subcmd # 0
  /\ i = 1
  /\ subcmdIndex = Argc(argv)
  /\ Argc(argv) = 3

(***************************************************************************)
(* C27                                                                     *)
(***************************************************************************)

\* The n-th store is that of a global boolean flag, the one case that tests
\* i >= argc and stores true without reading a value.
GlobalBoolWrite(n) ==
  /\ writes[n].phase = "phase1"
  /\ \E j \in 1..Len(ctx.flags) :
       ctx.flags[j].name = writes[n].flag /\ ctx.flags[j].type = "FLAG_BOOL"

\* The matched flags that are the last token of argv and need a value: a
\* global flag that is not boolean, or any flag of the selected subcommand.
LastTokenNeedsValue ==
  LET k == Argc(argv) - 1
  IN  /\ k \in ArgIndices
      /\ IF subcmd = 0
         THEN /\ HasDash(argv[k])
              /\ \E j \in 1..Len(ctx.flags) :
                   /\ ctx.flags[j].name = global_flag_name(argv[k])
                   /\ \A j2 \in 1..(j - 1) : ctx.flags[j2].name # ctx.flags[j].name
                   /\ ctx.flags[j].type # "FLAG_BOOL"
         ELSE /\ k > i
              /\ \E j \in 1..Len(ctx.subcommands[subcmd].flags) :
                   ctx.subcommands[subcmd].flags[j].name = subcommand_flag_name(argv[k])

\* C27: a conversion is applied only to a value token inside argv, never to
\* argv[argc]; a matched flag that is the last token and needs a value ends
\* the parse with a diagnostic and the failure status.
C27_ValueIndexInBounds ==
  /\ status # UB_CRASH
  /\ \A n \in 1..Len(writes) : GlobalBoolWrite(n) \/ writes[n].from < Argc(argv)
  /\ (pc = "done" /\ LastTokenNeedsValue) => EndedByError \/ EndedByHelp

(***************************************************************************)
(* C28                                                                     *)
(***************************************************************************)

\* C28: in the second pass only a token that begins with a dash is taken for
\* a flag of the subcommand: every store of the second pass was made for a
\* dash token, and a flag is marked as given only if some token after the
\* subcommand is its name with a dash.
C28_SubcommandFlagNeedsDash ==
  /\ \A n \in 1..Len(writes) :
       writes[n].phase = "phase2" => HasDash(argv[writes[n].at])
  /\ subcmd # 0 =>
       \A j \in 1..Len(proccessed_flags) :
         proccessed_flags[j] # ZeroFlag =>
           \E k \in ArgIndices :
             k > i /\ argv[k] = "-" \o ctx.subcommands[subcmd].flags[j].name



(***************************************************************************)
(* C29: one descriptor per dash token of the first pass                    *)
(***************************************************************************)

\* The first descriptor of the global table, in registration order, with the
\* name of the flag f.
FirstNamed(name) ==
  CHOOSE j \in 1..Len(ctx.flags) :
    /\ ctx.flags[j].name = name
    /\ \A q \in 1..(j - 1) : ctx.flags[q].name # name

\* The stores of the first pass made for the dash token argv[k].
Phase1WritesAt(k) == {n \in 1..Len(writes) : writes[n].phase = "phase1" /\ writes[n].at = k}

\* C29: in the first pass a dash token assigns at most one descriptor of the
\* global table, the first one in registration order with the token's name,
\* from the token that follows it; a second descriptor of the same name is
\* not assigned and no later token is read as a value.
C29_FirstMatchOnly ==
  \A k \in ArgIndices :
    /\ Cardinality(Phase1WritesAt(k)) <= 1
    /\ \A n \in Phase1WritesAt(k) :
         /\ writes[n].cell = ctx.flags[FirstNamed(writes[n].flag)].value
         /\ writes[n].from = k + 1

(***************************************************************************)
(* C30: a negative value for a flag of an unsigned type                    *)
(***************************************************************************)

\* The token is a decimal with a minus sign and a magnitude other than zero,
\* for a flag of an unsigned type.
NegativeForUnsigned(type, tok) ==
  /\ type \in UnsignedTypes
  /\ IsDecimal(tok)
  /\ Negative(tok)

\* C30: for a matched flag of any unsigned integer type (unsigned int,
\* uint8/16/32/64, size_t, uintptr) a negative value token such as -1 is
\* never stored, wrapped around or otherwise: the scan does not pass the
\* flag, nothing is written for it, and the parse ends with a diagnostic
\* naming the flag and the failure status.
C30_NegativeUnsignedIsFatal ==
  \A k \in ArgIndices :
    k + 1 \in ArgIndices =>
      /\ \A j \in GlobalIntegerAt(k) :
           NegativeForUnsigned(ctx.flags[j].type, argv[k + 1]) =>
             /\ ~Scanned(k)
             /\ ~WroteAt(k)
             /\ (pc = "done" /\ i = k) => FailedNaming(ctx.flags[j].name)
      /\ \A j \in SelectedIntegerAt(k) :
           NegativeForUnsigned(ctx.subcommands[subcmd].flags[j].type, argv[k + 1]) =>
             /\ ~Scanned2(k)
             /\ ~WroteAt(k)
             /\ (pc = "done" /\ subcmdIndex = k + 1) =>
                  FailedNaming(ctx.subcommands[subcmd].flags[j].name)


=============================================================================
